---- MODULE Spec2Model ----
\* Relationship graph of lsmedia-backend: the Friendship and Follower tables,
\* the friend-request / follow handlers of src/Route/friendshipRoute.js and the
\* notifications they dispatch through NotificationService; the timeline
\* queries of src/Route/authenticationRoute.js, the boosted and sponsored posts
\* of src/Route/sponsoredRoute.js with their expiry sweep and weekly limit, the
\* page follow and join-request routes, the reaction and comment handlers, and
\* the read side of the notifications (src/Route/notificationRoute.js).
EXTENDS Integers, Sequences, FiniteSets, TLC

\* ---------------------------------------------------------------- bounds
NumUsers == 2
MaxNotifications == 2
MaxFriendshipId == 3
NumRequests == 2
NumPages == 2
MaxPosts == 2
MaxFeedBoosts == 2
MaxBoostedPosts == 4
MaxSponsored == 2
MaxTime == 2
MaxPage == 2
MaxLimit == 2

UserIds == 1..NumUsers
\* an id that has no row in the user table
NoUser == NumUsers + 1
FriendshipIds == 1..MaxFriendshipId
\* an id that has no row in the friendship table
NoFriendship == MaxFriendshipId + 1
Requests == 1..NumRequests
PageIds == 1..NumPages
\* a pageId that has no row in the page table (post.pageId of a user post)
NoPage == NumPages + 1
PostIds == 1..MaxPosts
SponsoredIds == 1..MaxSponsored
\* the clock: new Date(), counted in weeks
Times == 0..MaxTime
\* the users the timelines are composed for
Viewers == {1}
\* the reaction types a request may carry
ReactionTypes == {"LIKE", "LOVE"}

VARIABLES
  userDeletedAt,  \* user.deletedAt per user row: TRUE when the marker is set
  friendship,     \* rows of the friendship table
  follower,       \* rows of the follower table
  notification,   \* rows of the notification table, in insertion order
  res,            \* the response of the handler that ran last
  req,            \* per in-flight request: its position and the rows it has read
  followerCreateFails,  \* the store rejects follower.create (prisma throws)
  page,           \* rows of the page table
  pageMember,     \* rows of the pagemember table whose deletedAt is unset
  pageFollower,   \* rows of the pagefollower table whose deletedAt is unset
  post,           \* rows of the post table in creation order: post[k] has id k
  boostedPost,    \* rows of the boosted_post table in creation order
  sponsored,      \* the sponsored table: per id its row, or NoSponsored
  reaction,       \* rows of the reaction table
  now,            \* the clock
  feed,           \* the body of the last timeline response
  expiredCount,   \* what updateExpiredPosts returned last
  comment,        \* rows of the comment table, in insertion order
  notificationCreateFails,  \* the store rejects notification.create (prisma throws)
  boostReq        \* per in-flight boost request: its position and what it was sent

service == <<comment, notificationCreateFails, boostReq>>
content == <<page, pageMember, pageFollower, post, boostedPost, sponsored,
             reaction, now, feed, expiredCount, service>>
vars == <<userDeletedAt, friendship, follower, notification, res, req,
          followerCreateFails, content>>
db == <<friendship, follower, notification>>

\* a request that is not running; a running one keeps the rows it has read:
\* fid, a, b (the friendship found and its userAId, userBId), f1, f2 (the two
\* follower lookups) and fr (whether a friendship was found)
Idle == [pc |-> "idle", actor |-> NoUser, target |-> NoUser, fid |-> NoFriendship,
         a |-> NoUser, b |-> NoUser, f1 |-> FALSE, f2 |-> FALSE, fr |-> FALSE]

\* endDate DateTime? : the column is NULL
NullDate == 0 - 1

\* a boost request that is not running; a running one keeps what it was sent
IdleBoost == [pc |-> "idle", userId |-> NoUser, postId |-> 0, endDate |-> NullDate]

\* what the handler that ran last answered: the route and the HTTP status
NoResponse == [op |-> "none", status |-> 0]

\* no timeline has been answered yet
NoFeed == [status |-> 0, posts |-> <<>>, hasMore |-> FALSE, total |-> 0]

\* no row under this id of the sponsored table
NoSponsored == [isActive |-> "none", endDate |-> NullDate]

\* ---------------------------------------------------------------- store
FriendshipRow(id, a, b, st) == [id |-> id, userAId |-> a, userBId |-> b, status |-> st]
FollowerRow(a, b) == [followerId |-> a, followingId |-> b]
\* isRead Boolean @default(false)
NotificationRow(to, from, type) == [userId |-> to, senderId |-> from, type |-> type, isRead |-> FALSE]

\* prisma.user.findUnique({ where: { id } }): the row exists, whatever its deletedAt
UserExists(id) == id \in UserIds

\* prisma.friendship.findFirst({ where: { OR: [{A,B},{B,A}] } }): the candidates
FriendshipBetween(fs, a, b) ==
  {f \in fs : \/ (f.userAId = a /\ f.userBId = b)
              \/ (f.userAId = b /\ f.userBId = a)}

\* prisma.friendship.findUnique({ where: { id } })
FriendshipById(fs, id) == {f \in fs : f.id = id}

\* prisma.follower.findUnique({ where: { followerId_followingId } })
Follows(fl, a, b) == FollowerRow(a, b) \in fl

\* a fresh cuid: an id no row carries and no running request still holds
FreshIds(fs, rq) ==
  {i \in FriendshipIds :
     /\ \A f \in fs : f.id # i
     /\ \A p \in Requests : rq[p].fid # i}

\* friendship.update({ where: { id }, data: { status: "accepted" } })
FriendshipAccept(fs, id) ==
  {IF f.id = id THEN [f EXCEPT !.status = "accepted"] ELSE f : f \in fs}

\* friendship.delete({ where: { id } })
FriendshipDelete(fs, id) == {f \in fs : f.id # id}

\* follower.deleteMany({ where: { followerId, followingId } })
FollowerDeleteMany(fl, a, b) == fl \ {FollowerRow(a, b)}

\* ---------------------------------------------------------------- notifications
\* prisma.notification.create({ data }) inside the try of a create operation: a
\* throw is caught and logged there, and the table stays as it was
NotificationCreate(ns, row) == IF notificationCreateFails THEN ns ELSE Append(ns, row)

\* NotificationService.createFollowNotification(senderId, followedUserId)
createFollowNotification(ns, senderId, followedUserId) ==
  IF senderId = followedUserId \/ ~UserExists(senderId) THEN ns
  ELSE NotificationCreate(ns, NotificationRow(followedUserId, senderId, "follow"))

\* NotificationService.createFriendRequestNotification(senderId, receiverId)
createFriendRequestNotification(ns, senderId, receiverId) ==
  IF senderId = receiverId \/ ~UserExists(senderId) THEN ns
  ELSE NotificationCreate(ns, NotificationRow(receiverId, senderId, "friend_request"))

\* NotificationService.createFriendAcceptNotification(senderId, accepterId)
createFriendAcceptNotification(ns, senderId, accepterId) ==
  IF senderId = accepterId \/ ~UserExists(accepterId) THEN ns
  ELSE NotificationCreate(ns, NotificationRow(senderId, accepterId, "friend_accept"))

\* ---------------------------------------------------------------- row changes
\* mutant of NewRequestFriendship: the receiver is stored as userA
NewRequestFriendship_ReceiverAsUserA(fs, id, senderId, receiverId) ==
  fs \cup {FriendshipRow(id, receiverId, senderId, "pending")}

\* POST /request/:userId, new-request transaction: friendship.create (sender is userA)
NewRequestFriendship(fs, id, senderId, receiverId) ==
  fs \cup {FriendshipRow(id, senderId, receiverId, "pending")}

\* POST /request/:userId, new-request transaction: follower.create when none exists
NewRequestFollower(fl, senderId, receiverId) ==
  fl \cup {FollowerRow(senderId, receiverId)}

\* mutant of AutoAcceptFollowers: only the row receiver -> sender is created
AutoAcceptFollowers_OneSided(fl, senderId, receiverId, existingFollow1, existingFollow2) ==
  fl \cup (IF existingFollow2 THEN {} ELSE {FollowerRow(receiverId, senderId)})

\* POST /request/:userId, auto-accept branch: the follower rows created where missing
AutoAcceptFollowers(fl, senderId, receiverId, existingFollow1, existingFollow2) ==
  fl \cup (IF existingFollow1 THEN {} ELSE {FollowerRow(senderId, receiverId)})
     \cup (IF existingFollow2 THEN {} ELSE {FollowerRow(receiverId, senderId)})

\* PUT /accept/:friendshipId transaction: the follower rows created where missing
AcceptFollowers(fl, senderId, receiverId, existingFollow1, existingFollow2) ==
  fl \cup (IF existingFollow1 THEN {} ELSE {FollowerRow(senderId, receiverId)})
     \cup (IF existingFollow2 THEN {} ELSE {FollowerRow(receiverId, senderId)})

\* mutant of AcceptStatus: either party of the request may accept it
AcceptStatus_EitherParty(f, currentUserId) ==
  IF f.userBId # currentUserId /\ f.userAId # currentUserId THEN 403
  ELSE IF f.status # "pending" THEN 400
  ELSE 200

\* PUT /accept/:friendshipId pre-checks: the status the handler answers with
AcceptStatus(f, currentUserId) ==
  IF f.userBId # currentUserId THEN 403
  ELSE IF f.status # "pending" THEN 400
  ELSE 200

\* DELETE /cancel/:friendshipId pre-checks
CancelStatus(f, currentUserId) ==
  IF f.userAId # currentUserId THEN 403
  ELSE IF f.status # "pending" THEN 400
  ELSE 200

\* variant: the receiver may reject whatever the status of the row
RejectStatus_AnyStatus(f, currentUserId) ==
  IF f.userBId # currentUserId THEN 403
  ELSE 200

\* DELETE /reject/:friendshipId pre-checks
RejectStatus(f, currentUserId) ==
  IF f.userBId # currentUserId THEN 403
  ELSE IF f.status # "pending" THEN 400
  ELSE 200

\* mutant of CancelFollowers: the follow of the requester is kept
CancelFollowers_Keep(fl, f) == fl

\* DELETE /cancel/:friendshipId transaction: the follower rows it leaves
CancelFollowers(fl, f) == FollowerDeleteMany(fl, f.userAId, f.userBId)

\* DELETE /reject/:friendshipId transaction: the follower rows it leaves
RejectFollowers(fl, f) == fl

\* DELETE /unfriend/:userId: the rows findFirst may return (accepted, either orientation)
UnfriendCandidates(fs, currentUserId, targetUserId) ==
  {f \in FriendshipBetween(fs, currentUserId, targetUserId) : f.status = "accepted"}

\* mutant of UnfriendFollowers: only the caller's own follow is removed
UnfriendFollowers_OneWay(fl, currentUserId, targetUserId) ==
  FollowerDeleteMany(fl, currentUserId, targetUserId)

\* DELETE /unfriend/:userId transaction: the two deleteMany calls
UnfriendFollowers(fl, currentUserId, targetUserId) ==
  FollowerDeleteMany(FollowerDeleteMany(fl, currentUserId, targetUserId),
                     targetUserId, currentUserId)

\* ---------------------------------------------------------------- handlers, run to completion
Reply(op, status) == res' = [op |-> op, status |-> status]

\* POST /request/:userId
SendFriendRequest(senderId, receiverId) ==
  LET existing == FriendshipBetween(friendship, senderId, receiverId)
      create ==
        IF \/ \E f \in friendship : f.userAId = senderId /\ f.userBId = receiverId
           \/ followerCreateFails /\ ~Follows(follower, senderId, receiverId)
        THEN /\ Reply("sendFriendRequest", 500)
             /\ UNCHANGED db
        ELSE /\ FreshIds(friendship, req) # {}
             /\ friendship' = NewRequestFriendship(friendship,
                                CHOOSE i \in FreshIds(friendship, req) : TRUE,
                                senderId, receiverId)
             /\ follower' = NewRequestFollower(follower, senderId, receiverId)
             /\ notification' = createFollowNotification(
                                  createFriendRequestNotification(
                                    notification, senderId, receiverId),
                                  senderId, receiverId)
             /\ Reply("sendFriendRequest", 201)
  IN
  /\ IF senderId = receiverId
     THEN Reply("sendFriendRequest", 400) /\ UNCHANGED db
     ELSE IF ~UserExists(receiverId)
     THEN Reply("sendFriendRequest", 404) /\ UNCHANGED db
     ELSE IF existing = {} THEN create
     ELSE \E existingFriendship \in existing :
       IF existingFriendship.status = "accepted"
       THEN Reply("sendFriendRequest", 400) /\ UNCHANGED db
       ELSE IF existingFriendship.status = "pending"
       THEN IF /\ existingFriendship.userAId = receiverId
               /\ existingFriendship.userBId = senderId
            THEN /\ friendship' = FriendshipAccept(friendship, existingFriendship.id)
                 /\ follower' = IF followerCreateFails THEN follower
                                ELSE AutoAcceptFollowers(follower, senderId, receiverId,
                                       Follows(follower, senderId, receiverId),
                                       Follows(follower, receiverId, senderId))
                 /\ notification' = createFriendAcceptNotification(
                                      notification, receiverId, senderId)
                 /\ Reply("sendFriendRequest", 200)
            ELSE Reply("sendFriendRequest", 400) /\ UNCHANGED db
       ELSE create
  /\ Len(notification') <= MaxNotifications
  /\ UNCHANGED <<userDeletedAt, req, followerCreateFails>>
  /\ UNCHANGED content

\* PUT /accept/:friendshipId
AcceptFriendRequest(friendshipId, currentUserId) ==
  LET found == FriendshipById(friendship, friendshipId) IN
  /\ IF found = {}
     THEN Reply("acceptFriendRequest", 404) /\ UNCHANGED db
     ELSE \E f \in found :
       IF AcceptStatus(f, currentUserId) # 200
       THEN /\ Reply("acceptFriendRequest", AcceptStatus(f, currentUserId))
            /\ UNCHANGED db
       ELSE IF /\ followerCreateFails
               /\ ~(Follows(follower, f.userAId, f.userBId)
                     /\ Follows(follower, f.userBId, f.userAId))
       THEN /\ Reply("acceptFriendRequest", 500)
            /\ UNCHANGED db
       ELSE /\ Reply("acceptFriendRequest", 200)
            /\ friendship' = FriendshipAccept(friendship, friendshipId)
            /\ follower' = AcceptFollowers(follower, f.userAId, f.userBId,
                              Follows(follower, f.userAId, f.userBId),
                              Follows(follower, f.userBId, f.userAId))
            /\ notification' = createFriendAcceptNotification(
                                 notification, f.userAId, currentUserId)
  /\ Len(notification') <= MaxNotifications
  /\ UNCHANGED <<userDeletedAt, req, followerCreateFails>>
  /\ UNCHANGED content

\* DELETE /cancel/:friendshipId
CancelFriendRequest(friendshipId, currentUserId) ==
  LET found == FriendshipById(friendship, friendshipId) IN
  /\ IF found = {}
     THEN Reply("cancelFriendRequest", 404)
          /\ UNCHANGED db
     ELSE \E f \in found :
       /\ Reply("cancelFriendRequest", CancelStatus(f, currentUserId))
       /\ IF CancelStatus(f, currentUserId) = 200
          THEN /\ friendship' = FriendshipDelete(friendship, friendshipId)
               /\ follower' = CancelFollowers(follower, f)
               /\ UNCHANGED notification
          ELSE UNCHANGED db
  /\ UNCHANGED <<userDeletedAt, req, followerCreateFails>>
  /\ UNCHANGED content

\* DELETE /reject/:friendshipId
RejectFriendRequest(friendshipId, currentUserId) ==
  LET found == FriendshipById(friendship, friendshipId) IN
  /\ IF found = {}
     THEN Reply("rejectFriendRequest", 404)
          /\ UNCHANGED db
     ELSE \E f \in found :
       /\ Reply("rejectFriendRequest", RejectStatus(f, currentUserId))
       /\ IF RejectStatus(f, currentUserId) = 200
          THEN /\ friendship' = FriendshipDelete(friendship, friendshipId)
               /\ follower' = RejectFollowers(follower, f)
               /\ UNCHANGED notification
          ELSE UNCHANGED db
  /\ UNCHANGED <<userDeletedAt, req, followerCreateFails>>
  /\ UNCHANGED content

\* DELETE /unfriend/:userId
Unfriend(currentUserId, targetUserId) ==
  LET found == UnfriendCandidates(friendship, currentUserId, targetUserId) IN
  /\ IF currentUserId = targetUserId
     THEN Reply("unfriend", 400) /\ UNCHANGED db
     ELSE IF found = {}
     THEN Reply("unfriend", 404) /\ UNCHANGED db
     ELSE \E f \in found :
       /\ friendship' = FriendshipDelete(friendship, f.id)
       /\ follower' = UnfriendFollowers(follower, currentUserId, targetUserId)
       /\ UNCHANGED notification
       /\ Reply("unfriend", 200)
  /\ UNCHANGED <<userDeletedAt, req, followerCreateFails>>
  /\ UNCHANGED content

\* variant: the friendship is created on every mutual follow, whatever findFirst found
MutualFollowFriendship_IgnoreExisting(fs, id, followerId, followingId, mutual, existing) ==
  IF mutual
  THEN fs \cup {FriendshipRow(id, followerId, followingId, "accepted")}
  ELSE fs

\* POST /follow/:userId, transaction: friendship.create when the follow is mutual
\* and findFirst found no friendship between the two
MutualFollowFriendship(fs, id, followerId, followingId, mutual, existing) ==
  IF mutual /\ ~existing
  THEN fs \cup {FriendshipRow(id, followerId, followingId, "accepted")}
  ELSE fs

\* variant: findFirst without the status filter
UnfollowCandidates_AnyStatus(fs, followerId, followingId) ==
  FriendshipBetween(fs, followerId, followingId)

\* DELETE /unfollow/:userId: the rows findFirst may return (accepted, either orientation)
UnfollowCandidates(fs, followerId, followingId) ==
  {f \in FriendshipBetween(fs, followerId, followingId) : f.status = "accepted"}

\* POST /follow/:userId
Follow(followerId, followingId) ==
  LET existingFriendship == FriendshipBetween(friendship, followerId, followingId) # {}
      targetFollowingCurrent == Follows(follower, followingId, followerId)
      friendshipCreated == targetFollowingCurrent /\ ~existingFriendship
  IN
  /\ IF followerId = followingId
     THEN Reply("follow", 400) /\ UNCHANGED db
     ELSE IF ~UserExists(followingId)
     THEN Reply("follow", 404) /\ UNCHANGED db
     ELSE IF Follows(follower, followerId, followingId)
     THEN Reply("follow", 400) /\ UNCHANGED db
     ELSE IF followerCreateFails
     THEN Reply("follow", 500) /\ UNCHANGED db
     ELSE /\ friendshipCreated => FreshIds(friendship, req) # {}
          /\ follower' = follower \cup {FollowerRow(followerId, followingId)}
          /\ friendship' = MutualFollowFriendship(friendship,
                             CHOOSE i \in FreshIds(friendship, req) \cup {NoFriendship} : TRUE,
                             followerId, followingId, targetFollowingCurrent,
                             existingFriendship)
          /\ notification' =
               IF friendshipCreated
               THEN createFriendAcceptNotification(
                      createFollowNotification(notification, followerId, followingId),
                      followingId, followerId)
               ELSE createFollowNotification(notification, followerId, followingId)
          /\ Reply("follow", 201)
  /\ Len(notification') <= MaxNotifications
  /\ UNCHANGED <<userDeletedAt, req, followerCreateFails>>
  /\ UNCHANGED content

\* DELETE /unfollow/:userId
Unfollow(followerId, followingId) ==
  LET found == UnfollowCandidates(friendship, followerId, followingId) IN
  /\ IF followerId = followingId
     THEN Reply("unfollow", 400) /\ UNCHANGED db
     ELSE IF ~Follows(follower, followerId, followingId)
     THEN Reply("unfollow", 404) /\ UNCHANGED db
     ELSE /\ follower' = follower \ {FollowerRow(followerId, followingId)}
          /\ IF found = {} THEN UNCHANGED friendship
             ELSE \E existingFriendship \in found :
                    friendship' = FriendshipDelete(friendship, existingFriendship.id)
          /\ UNCHANGED notification
          /\ Reply("unfollow", 200)
  /\ UNCHANGED <<userDeletedAt, req, followerCreateFails>>
  /\ UNCHANGED content

\* SoftDeleteService.softDeleteUser(userId)
SoftDeleteUser(userId) ==
  /\ userDeletedAt' = [userDeletedAt EXCEPT ![userId] = TRUE]
  /\ UNCHANGED <<db, res, req, followerCreateFails>>
  /\ UNCHANGED content

\* SoftDeleteService.restoreUser(userId)
RestoreUser(userId) ==
  /\ userDeletedAt' = [userDeletedAt EXCEPT ![userId] = FALSE]
  /\ UNCHANGED <<db, res, req, followerCreateFails>>
  /\ UNCHANGED content

\* NotificationService.deleteNotification(userId, notificationId); the row is
\* named by its position in the table
DeleteNotification(userId, n) ==
  /\ n \in 1..Len(notification)
  /\ notification[n].userId = userId
  /\ notification' = [k \in 1..(Len(notification) - 1) |->
                        IF k < n THEN notification[k] ELSE notification[k + 1]]
  /\ UNCHANGED <<userDeletedAt, friendship, follower, res, req, followerCreateFails>>
  /\ UNCHANGED content

\* ---------------------------------------------------------------- specification
Init ==
  /\ userDeletedAt = [u \in UserIds |-> FALSE]
  /\ friendship = {}
  /\ follower = {}
  /\ notification = <<>>
  /\ res = NoResponse
  /\ req = [p \in Requests |-> Idle]
  /\ followerCreateFails = FALSE
  /\ page = {}
  /\ pageMember = {}
  /\ pageFollower = {}
  /\ post = <<>>
  /\ boostedPost = <<>>
  /\ sponsored = [id \in SponsoredIds |-> NoSponsored]
  /\ reaction = {}
  /\ now = 0
  /\ feed = NoFeed
  /\ expiredCount = 0
  /\ comment = <<>>
  /\ notificationCreateFails = FALSE
  /\ boostReq = [p \in Requests |-> IdleBoost]

Next ==
  \/ \E s \in UserIds, r \in UserIds \cup {NoUser} : SendFriendRequest(s, r)
  \/ \E id \in FriendshipIds \cup {NoFriendship}, u \in UserIds : AcceptFriendRequest(id, u)
  \/ \E id \in FriendshipIds \cup {NoFriendship}, u \in UserIds : CancelFriendRequest(id, u)
  \/ \E id \in FriendshipIds \cup {NoFriendship}, u \in UserIds : RejectFriendRequest(id, u)
  \/ \E u \in UserIds, t \in UserIds \cup {NoUser} : Unfriend(u, t)
  \/ \E u \in UserIds, t \in UserIds \cup {NoUser} : Follow(u, t)
  \/ \E u \in UserIds, t \in UserIds \cup {NoUser} : Unfollow(u, t)
  \/ \E u \in UserIds : SoftDeleteUser(u)
  \/ \E u \in UserIds : RestoreUser(u)
  \/ \E u \in UserIds, n \in 1..MaxNotifications : DeleteNotification(u, n)

\* one request at a time, each handler run to completion
Spec == Init /\ [][Next]_vars

\* ---------------------------------------------------------------- store failures
\* the environment: follower.create starts or stops throwing
FollowerCreateStartsFailing ==
  /\ ~followerCreateFails
  /\ followerCreateFails' = TRUE
  /\ UNCHANGED <<userDeletedAt, db, res, req>>
  /\ UNCHANGED content

FollowerCreateRecovers ==
  /\ followerCreateFails
  /\ followerCreateFails' = FALSE
  /\ UNCHANGED <<userDeletedAt, db, res, req>>
  /\ UNCHANGED content

NextFault ==
  \/ Next
  \/ FollowerCreateStartsFailing
  \/ FollowerCreateRecovers

\* one request at a time, against a store whose follower.create may throw
SpecFault == Init /\ [][NextFault]_vars

\* ---------------------------------------------------------------- handlers, one store call at a time
\* Requests run in parallel against the store. A request reads (its pre-checks),
\* is suspended, and then writes; a $transaction is one step, the calls outside
\* a transaction are separate steps.
Running(p, pc) == req[p].pc = pc

\* the answer of a request that ran in parallel with others: its HTTP status
Answer(status) == res' = [op |-> "request", status |-> status]

\* a new request takes the first free slot (the slots are interchangeable)
Free(p) == /\ req[p].pc = "idle"
           /\ \A q \in Requests : q < p => req[q].pc # "idle"

Begin(p, pc, actor, target, fid, a, b, f1, f2, fr) ==
  req' = [req EXCEPT ![p] = [pc |-> pc, actor |-> actor, target |-> target,
                             fid |-> fid, a |-> a, b |-> b,
                             f1 |-> f1, f2 |-> f2, fr |-> fr]]

Finish(p) == req' = [req EXCEPT ![p] = Idle]

\* POST /request/:userId, pre-checks up to the branch taken
SendFriendRequestCheck(p, senderId, receiverId) ==
  LET existing == FriendshipBetween(friendship, senderId, receiverId)
      toCreate == /\ Begin(p, "request_tx", senderId, receiverId, NoFriendship,
                           NoUser, NoUser, FALSE, FALSE, FALSE)
                  /\ UNCHANGED res
      refuse(status) == /\ Answer(status)
                        /\ UNCHANGED req
  IN
  /\ Free(p)
  /\ IF senderId = receiverId THEN refuse(400)
     ELSE IF ~UserExists(receiverId) THEN refuse(404)
     ELSE IF existing = {} THEN toCreate
     ELSE \E existingFriendship \in existing :
       IF existingFriendship.status = "accepted" THEN refuse(400)
       ELSE IF existingFriendship.status = "pending"
       THEN IF /\ existingFriendship.userAId = receiverId
               /\ existingFriendship.userBId = senderId
            THEN /\ Begin(p, "request_update", senderId, receiverId,
                          existingFriendship.id, receiverId, senderId,
                          FALSE, FALSE, TRUE)
                 /\ UNCHANGED res
            ELSE refuse(400)
       ELSE toCreate
  /\ UNCHANGED <<userDeletedAt, db, followerCreateFails>>
  /\ UNCHANGED content

\* POST /request/:userId, new-request transaction and the notifications after it
SendFriendRequestTx(p) ==
  LET senderId == req[p].actor
      receiverId == req[p].target
  IN
  /\ Running(p, "request_tx")
  /\ IF \E f \in friendship : f.userAId = senderId /\ f.userBId = receiverId
     THEN /\ Answer(500)
          /\ UNCHANGED db
     ELSE /\ FreshIds(friendship, req) # {}
          /\ friendship' = NewRequestFriendship(friendship,
                             CHOOSE i \in FreshIds(friendship, req) : TRUE,
                             senderId, receiverId)
          /\ follower' = NewRequestFollower(follower, senderId, receiverId)
          /\ notification' = createFollowNotification(
                               createFriendRequestNotification(
                                 notification, senderId, receiverId),
                               senderId, receiverId)
          /\ Answer(201)
  /\ Len(notification') <= MaxNotifications
  /\ Finish(p)
  /\ UNCHANGED <<userDeletedAt, followerCreateFails>>
  /\ UNCHANGED content

\* POST /request/:userId, auto-accept branch: friendship.update, no transaction
SendFriendRequestAutoAcceptUpdate(p) ==
  /\ Running(p, "request_update")
  /\ IF FriendshipById(friendship, req[p].fid) = {}
     THEN /\ Answer(500)
          /\ Finish(p)
          /\ UNCHANGED db
     ELSE /\ friendship' = FriendshipAccept(friendship, req[p].fid)
          /\ req' = [req EXCEPT ![p].pc = "request_find"]
          /\ UNCHANGED <<follower, notification, res>>
  /\ UNCHANGED <<userDeletedAt, followerCreateFails>>
  /\ UNCHANGED content

\* POST /request/:userId, auto-accept branch: the two follower.findUnique calls
SendFriendRequestAutoAcceptFind(p) ==
  /\ Running(p, "request_find")
  /\ req' = [req EXCEPT ![p].pc = "request_create",
                        ![p].f1 = Follows(follower, req[p].actor, req[p].target),
                        ![p].f2 = Follows(follower, req[p].target, req[p].actor)]
  /\ UNCHANGED <<userDeletedAt, db, res, followerCreateFails>>
  /\ UNCHANGED content

\* POST /request/:userId, auto-accept branch: Promise.all of the follower.create
\* calls (a create that meets the unique index throws and is swallowed), the
\* notification and the answer
SendFriendRequestAutoAcceptCreate(p) ==
  /\ Running(p, "request_create")
  /\ follower' = AutoAcceptFollowers(follower, req[p].actor, req[p].target,
                                     req[p].f1, req[p].f2)
  /\ notification' = createFriendAcceptNotification(
                       notification, req[p].target, req[p].actor)
  /\ Len(notification') <= MaxNotifications
  /\ Answer(200)
  /\ Finish(p)
  /\ UNCHANGED <<userDeletedAt, friendship, followerCreateFails>>
  /\ UNCHANGED content

\* PUT /accept/:friendshipId, pre-checks
AcceptFriendRequestCheck(p, friendshipId, currentUserId) ==
  LET found == FriendshipById(friendship, friendshipId) IN
  /\ Free(p)
  /\ IF found = {}
     THEN /\ Answer(404)
          /\ UNCHANGED req
     ELSE \E f \in found :
       IF AcceptStatus(f, currentUserId) # 200
       THEN /\ Answer(AcceptStatus(f, currentUserId))
            /\ UNCHANGED req
       ELSE /\ Begin(p, "accept_tx", currentUserId, NoUser, friendshipId,
                     f.userAId, f.userBId, FALSE, FALSE, TRUE)
            /\ UNCHANGED res
  /\ UNCHANGED <<userDeletedAt, db, followerCreateFails>>
  /\ UNCHANGED content

\* PUT /accept/:friendshipId, transaction and the notification after it
AcceptFriendRequestTx(p) ==
  /\ Running(p, "accept_tx")
  /\ IF FriendshipById(friendship, req[p].fid) = {}
     THEN /\ Answer(500)
          /\ UNCHANGED db
     ELSE /\ friendship' = FriendshipAccept(friendship, req[p].fid)
          /\ follower' = AcceptFollowers(follower, req[p].a, req[p].b,
                                         Follows(follower, req[p].a, req[p].b),
                                         Follows(follower, req[p].b, req[p].a))
          /\ notification' = createFriendAcceptNotification(
                               notification, req[p].a, req[p].actor)
          /\ Answer(200)
  /\ Len(notification') <= MaxNotifications
  /\ Finish(p)
  /\ UNCHANGED <<userDeletedAt, followerCreateFails>>
  /\ UNCHANGED content

\* DELETE /cancel/:friendshipId, pre-checks
CancelFriendRequestCheck(p, friendshipId, currentUserId) ==
  LET found == FriendshipById(friendship, friendshipId) IN
  /\ Free(p)
  /\ IF found = {}
     THEN /\ Answer(404)
          /\ UNCHANGED req
     ELSE \E f \in found :
       IF CancelStatus(f, currentUserId) # 200
       THEN /\ Answer(CancelStatus(f, currentUserId))
            /\ UNCHANGED req
       ELSE /\ Begin(p, "cancel_tx", currentUserId, NoUser, friendshipId,
                     f.userAId, f.userBId, FALSE, FALSE, TRUE)
            /\ UNCHANGED res
  /\ UNCHANGED <<userDeletedAt, db, followerCreateFails>>
  /\ UNCHANGED content

\* DELETE /cancel/:friendshipId, transaction
CancelFriendRequestTx(p) ==
  /\ Running(p, "cancel_tx")
  /\ IF FriendshipById(friendship, req[p].fid) = {}
     THEN /\ Answer(500)
          /\ UNCHANGED db
     ELSE /\ friendship' = FriendshipDelete(friendship, req[p].fid)
          /\ follower' = CancelFollowers(follower,
                           FriendshipRow(req[p].fid, req[p].a, req[p].b, "pending"))
          /\ UNCHANGED notification
          /\ Answer(200)
  /\ Finish(p)
  /\ UNCHANGED <<userDeletedAt, followerCreateFails>>
  /\ UNCHANGED content

\* DELETE /reject/:friendshipId, pre-checks
RejectFriendRequestCheck(p, friendshipId, currentUserId) ==
  LET found == FriendshipById(friendship, friendshipId) IN
  /\ Free(p)
  /\ IF found = {}
     THEN /\ Answer(404)
          /\ UNCHANGED req
     ELSE \E f \in found :
       IF RejectStatus(f, currentUserId) # 200
       THEN /\ Answer(RejectStatus(f, currentUserId))
            /\ UNCHANGED req
       ELSE /\ Begin(p, "reject_tx", currentUserId, NoUser, friendshipId,
                     f.userAId, f.userBId, FALSE, FALSE, TRUE)
            /\ UNCHANGED res
  /\ UNCHANGED <<userDeletedAt, db, followerCreateFails>>
  /\ UNCHANGED content

\* DELETE /reject/:friendshipId, transaction
RejectFriendRequestTx(p) ==
  /\ Running(p, "reject_tx")
  /\ IF FriendshipById(friendship, req[p].fid) = {}
     THEN /\ Answer(500)
          /\ UNCHANGED db
     ELSE /\ friendship' = FriendshipDelete(friendship, req[p].fid)
          /\ follower' = RejectFollowers(follower,
                           FriendshipRow(req[p].fid, req[p].a, req[p].b, "pending"))
          /\ UNCHANGED notification
          /\ Answer(200)
  /\ Finish(p)
  /\ UNCHANGED <<userDeletedAt, followerCreateFails>>
  /\ UNCHANGED content

\* DELETE /unfriend/:userId, pre-checks
UnfriendCheck(p, currentUserId, targetUserId) ==
  LET found == UnfriendCandidates(friendship, currentUserId, targetUserId) IN
  /\ Free(p)
  /\ IF currentUserId = targetUserId
     THEN Answer(400) /\ UNCHANGED req
     ELSE IF found = {}
     THEN Answer(404) /\ UNCHANGED req
     ELSE \E f \in found :
       /\ Begin(p, "unfriend_tx", currentUserId, targetUserId, f.id,
                f.userAId, f.userBId, FALSE, FALSE, TRUE)
       /\ UNCHANGED res
  /\ UNCHANGED <<userDeletedAt, db, followerCreateFails>>
  /\ UNCHANGED content

\* DELETE /unfriend/:userId, transaction
UnfriendTx(p) ==
  /\ Running(p, "unfriend_tx")
  /\ IF FriendshipById(friendship, req[p].fid) = {}
     THEN /\ Answer(500)
          /\ UNCHANGED db
     ELSE /\ friendship' = FriendshipDelete(friendship, req[p].fid)
          /\ follower' = UnfriendFollowers(follower, req[p].actor, req[p].target)
          /\ UNCHANGED notification
          /\ Answer(200)
  /\ Finish(p)
  /\ UNCHANGED <<userDeletedAt, followerCreateFails>>
  /\ UNCHANGED content

\* POST /follow/:userId, pre-checks and the two lookups before the transaction
FollowCheck(p, followerId, followingId) ==
  /\ Free(p)
  /\ IF followerId = followingId
     THEN Answer(400) /\ UNCHANGED req
     ELSE IF ~UserExists(followingId)
     THEN Answer(404) /\ UNCHANGED req
     ELSE IF Follows(follower, followerId, followingId)
     THEN Answer(400) /\ UNCHANGED req
     ELSE /\ Begin(p, "follow_tx", followerId, followingId, NoFriendship,
                   NoUser, NoUser, FALSE,
                   Follows(follower, followingId, followerId),
                   FriendshipBetween(friendship, followerId, followingId) # {})
          /\ UNCHANGED res
  /\ UNCHANGED <<userDeletedAt, db, followerCreateFails>>
  /\ UNCHANGED content

\* POST /follow/:userId, transaction and the notifications after it
FollowTx(p) ==
  LET followerId == req[p].actor
      followingId == req[p].target
      friendshipCreated == req[p].f2 /\ ~req[p].fr
  IN
  /\ Running(p, "follow_tx")
  /\ IF \/ Follows(follower, followerId, followingId)
        \/ /\ friendshipCreated
           /\ \E f \in friendship : f.userAId = followerId /\ f.userBId = followingId
     THEN /\ Answer(500)
          /\ UNCHANGED db
     ELSE /\ friendshipCreated => FreshIds(friendship, req) # {}
          /\ follower' = follower \cup {FollowerRow(followerId, followingId)}
          /\ friendship' = MutualFollowFriendship(friendship,
                             CHOOSE i \in FreshIds(friendship, req) \cup {NoFriendship} : TRUE,
                             followerId, followingId, req[p].f2, req[p].fr)
          /\ notification' =
               IF friendshipCreated
               THEN createFriendAcceptNotification(
                      createFollowNotification(notification, followerId, followingId),
                      followingId, followerId)
               ELSE createFollowNotification(notification, followerId, followingId)
          /\ Answer(201)
  /\ Len(notification') <= MaxNotifications
  /\ Finish(p)
  /\ UNCHANGED <<userDeletedAt, followerCreateFails>>
  /\ UNCHANGED content

\* DELETE /unfollow/:userId, pre-checks and the friendship lookup
UnfollowCheck(p, followerId, followingId) ==
  LET found == UnfollowCandidates(friendship, followerId, followingId) IN
  /\ Free(p)
  /\ IF followerId = followingId
     THEN Answer(400) /\ UNCHANGED req
     ELSE IF ~Follows(follower, followerId, followingId)
     THEN Answer(404) /\ UNCHANGED req
     ELSE /\ IF found = {}
             THEN Begin(p, "unfollow_tx", followerId, followingId, NoFriendship,
                        NoUser, NoUser, TRUE, FALSE, FALSE)
             ELSE \E f \in found :
                    Begin(p, "unfollow_tx", followerId, followingId, f.id,
                          f.userAId, f.userBId, TRUE, FALSE, TRUE)
          /\ UNCHANGED res
  /\ UNCHANGED <<userDeletedAt, db, followerCreateFails>>
  /\ UNCHANGED content

\* DELETE /unfollow/:userId, transaction
UnfollowTx(p) ==
  /\ Running(p, "unfollow_tx")
  /\ IF \/ ~Follows(follower, req[p].actor, req[p].target)
        \/ req[p].fr /\ FriendshipById(friendship, req[p].fid) = {}
     THEN /\ Answer(500)
          /\ UNCHANGED db
     ELSE /\ follower' = follower \ {FollowerRow(req[p].actor, req[p].target)}
          /\ friendship' = IF req[p].fr THEN FriendshipDelete(friendship, req[p].fid)
                           ELSE friendship
          /\ UNCHANGED notification
          /\ Answer(200)
  /\ Finish(p)
  /\ UNCHANGED <<userDeletedAt, followerCreateFails>>
  /\ UNCHANGED content

NextParallel ==
  \/ \E p \in Requests, s \in UserIds, r \in UserIds \cup {NoUser} :
       SendFriendRequestCheck(p, s, r)
  \/ \E p \in Requests : SendFriendRequestTx(p)
  \/ \E p \in Requests : SendFriendRequestAutoAcceptUpdate(p)
  \/ \E p \in Requests : SendFriendRequestAutoAcceptFind(p)
  \/ \E p \in Requests : SendFriendRequestAutoAcceptCreate(p)
  \/ \E p \in Requests, id \in FriendshipIds \cup {NoFriendship}, u \in UserIds :
       AcceptFriendRequestCheck(p, id, u)
  \/ \E p \in Requests : AcceptFriendRequestTx(p)
  \/ \E p \in Requests, id \in FriendshipIds \cup {NoFriendship}, u \in UserIds :
       CancelFriendRequestCheck(p, id, u)
  \/ \E p \in Requests : CancelFriendRequestTx(p)
  \/ \E p \in Requests, id \in FriendshipIds \cup {NoFriendship}, u \in UserIds :
       RejectFriendRequestCheck(p, id, u)
  \/ \E p \in Requests : RejectFriendRequestTx(p)
  \/ \E p \in Requests, u \in UserIds, t \in UserIds \cup {NoUser} : UnfriendCheck(p, u, t)
  \/ \E p \in Requests : UnfriendTx(p)
  \/ \E p \in Requests, u \in UserIds, t \in UserIds \cup {NoUser} : FollowCheck(p, u, t)
  \/ \E p \in Requests : FollowTx(p)
  \/ \E p \in Requests, u \in UserIds, t \in UserIds \cup {NoUser} : UnfollowCheck(p, u, t)
  \/ \E p \in Requests : UnfollowTx(p)
  \/ \E u \in UserIds, n \in 1..MaxNotifications : DeleteNotification(u, n)

\* NumRequests requests at a time, interleaved at their awaits
SpecParallel == Init /\ [][NextParallel]_vars

\* ---------------------------------------------------------------- content store
PageRow(id, ownerId, deleted) == [id |-> id, ownerId |-> ownerId, deleted |-> deleted]
PageMemberRow(userId, pageId, role) == [userId |-> userId, pageId |-> pageId, role |-> role, status |-> "accepted"]
PageFollowerRow(userId, pageId) == [userId |-> userId, pageId |-> pageId]
PostRow(type, authorId, pageId, deleted) == [type |-> type, authorId |-> authorId, pageId |-> pageId, deleted |-> deleted]
BoostedPostRow(postId, endDate, status, createdAt) == [postId |-> postId, endDate |-> endDate, status |-> status, createdAt |-> createdAt]
SponsoredRow(isActive, endDate) == [isActive |-> isActive, endDate |-> endDate]
ReactionRow(userId, postId, type) == [userId |-> userId, postId |-> postId, type |-> type]

Min(a, b) == IF a <= b THEN a ELSE b

Range(s) == {s[i] : i \in DOMAIN s}

\* orderBy: { createdAt: "desc" }: ids are handed out in creation order
RECURSIVE Desc(_)
Desc(S) ==
  IF S = {} THEN <<>>
  ELSE LET newest == CHOOSE x \in S : \A y \in S : y <= x
       IN <<newest>> \o Desc(S \ {newest})

\* findMany({ take })
Take(s, n) == SubSeq(s, 1, Min(n, Len(s)))

\* findMany({ skip })
Skip(s, n) == SubSeq(s, Min(n, Len(s)) + 1, Len(s))

\* page.findUnique({ where: { id, deletedAt: null } })
AlivePage(pageId) == {p \in page : p.id = pageId /\ ~p.deleted}

\* ---------------------------------------------------------------- timelines
\* GET /timeline-enhanced: the users whose posts the viewer is shown
followingUserIds(userId) ==
  {f.followingId : f \in {g \in follower : g.followerId = userId}} \cup {userId}

\* GET /timeline-enhanced: followed pages and pages of accepted membership
allPageIds(userId) ==
  {f.pageId : f \in {g \in pageFollower : g.userId = userId}}
    \cup {m.pageId : m \in {g \in pageMember : g.userId = userId /\ g.status = "accepted"}}

\* the OR of the three post queries: the post is of a followed user or page
InAudience(k, userId) ==
  \/ post[k].type = "user" /\ post[k].authorId \in followingUserIds(userId)
  \/ post[k].type = "page" /\ post[k].pageId \in allPageIds(userId)

\* variant: a boost stays active after its endDate
ActiveBoost_IgnoreEndDate(b, t) == b.status = "accepted"

\* boostedPosts: { some: { status: "accepted", OR: [endDate null, endDate > now] } }
ActiveBoost(b, t) ==
  /\ b.status = "accepted"
  /\ (b.endDate = NullDate \/ b.endDate > t)

HasActiveBoost(k) ==
  \E i \in DOMAIN boostedPost :
    boostedPost[i].postId = k /\ ActiveBoost(boostedPost[i], now)

\* take: Math.min(5, limit), the quota of boosted posts of one answer
BoostedQuota == 5

\* GET /timeline-enhanced, first query: ids of the boosted posts, newest first
boostedPosts(userId, limit) ==
  Take(Desc({k \in DOMAIN post : /\ ~post[k].deleted
                                 /\ HasActiveBoost(k)
                                 /\ InAudience(k, userId)}),
       Min(BoostedQuota, limit))

\* GET /timeline-enhanced, second query: ids of the regular posts, newest first
regularPosts(userId, skip, limit, boosted) ==
  Take(Skip(Desc({k \in DOMAIN post : /\ ~post[k].deleted
                                      /\ k \notin Range(boosted)
                                      /\ InAudience(k, userId)}),
            skip),
       limit - Len(boosted))

\* variant: the regular posts are put first
allPosts_RegularFirst(boosted, regular) ==
  [i \in 1..Len(regular) |-> [id |-> regular[i], isBoosted |-> FALSE]]
    \o [i \in 1..Len(boosted) |-> [id |-> boosted[i], isBoosted |-> TRUE]]

\* GET /timeline-enhanced: boosted posts first, then regular posts, each tagged
allPosts(boosted, regular) ==
  [i \in 1..Len(boosted) |-> [id |-> boosted[i], isBoosted |-> TRUE]]
    \o [i \in 1..Len(regular) |-> [id |-> regular[i], isBoosted |-> FALSE]]

\* post.count of both timelines
total(userId) ==
  Cardinality({k \in DOMAIN post : ~post[k].deleted /\ InAudience(k, userId)})

\* variant: the boosted posts of the response are not counted
hasMore_RegularOnly(skip, boostedCount, regularCount, count) ==
  skip + regularCount < count

\* const hasMore = skip + allPosts.length < total
hasMore(skip, boostedCount, regularCount, count) ==
  skip + (boostedCount + regularCount) < count

\* GET /timeline-enhanced
TimelineEnhanced(userId, pageNo, limit) ==
  LET skip == (pageNo - 1) * limit
      boosted == boostedPosts(userId, limit)
      regular == regularPosts(userId, skip, limit, boosted)
  IN
  /\ feed' = [status |-> 200,
              posts |-> allPosts(boosted, regular),
              hasMore |-> hasMore(skip, Len(boosted), Len(regular), total(userId)),
              total |-> total(userId)]
  /\ UNCHANGED <<userDeletedAt, db, res, req, followerCreateFails>>
  /\ UNCHANGED service
  /\ UNCHANGED <<page, pageMember, pageFollower, post, boostedPost, sponsored,
                 reaction, now, expiredCount>>

\* GET /timeline: no boosted query, every post of the response is untagged
Timeline(userId, pageNo, limit) ==
  LET skip == (pageNo - 1) * limit
      found == Take(Skip(Desc({k \in DOMAIN post : /\ ~post[k].deleted
                                                   /\ InAudience(k, userId)}),
                         skip),
                    limit)
  IN
  /\ IF Len(found) = 0
     THEN feed' = [status |-> 404, posts |-> <<>>, hasMore |-> FALSE, total |-> 0]
     ELSE feed' = [status |-> 200,
                   posts |-> allPosts(<<>>, found),
                   hasMore |-> hasMore(skip, 0, Len(found), total(userId)),
                   total |-> 0]
  /\ UNCHANGED <<userDeletedAt, db, res, req, followerCreateFails>>
  /\ UNCHANGED service
  /\ UNCHANGED <<page, pageMember, pageFollower, post, boostedPost, sponsored,
                 reaction, now, expiredCount>>

\* ---------------------------------------------------------------- soft delete
\* SoftDeleteService.softDeletePage(pageId)
SoftDeletePage(pageId) ==
  /\ page' = {IF p.id = pageId THEN [p EXCEPT !.deleted = TRUE] ELSE p : p \in page}
  /\ UNCHANGED <<userDeletedAt, db, res, req, followerCreateFails>>
  /\ UNCHANGED service
  /\ UNCHANGED <<pageMember, pageFollower, post, boostedPost, sponsored, reaction,
                 now, feed, expiredCount>>

\* SoftDeleteService.restorePage(pageId)
RestorePage(pageId) ==
  /\ page' = {IF p.id = pageId THEN [p EXCEPT !.deleted = FALSE] ELSE p : p \in page}
  /\ UNCHANGED <<userDeletedAt, db, res, req, followerCreateFails>>
  /\ UNCHANGED service
  /\ UNCHANGED <<pageMember, pageFollower, post, boostedPost, sponsored, reaction,
                 now, feed, expiredCount>>

\* SoftDeleteService.softDeletePost(postId)
SoftDeletePost(postId) ==
  /\ postId \in DOMAIN post
  /\ post' = [post EXCEPT ![postId].deleted = TRUE]
  /\ UNCHANGED <<userDeletedAt, db, res, req, followerCreateFails>>
  /\ UNCHANGED service
  /\ UNCHANGED <<page, pageMember, pageFollower, boostedPost, sponsored, reaction,
                 now, feed, expiredCount>>

\* SoftDeleteService.restorePost(postId)
RestorePost(postId) ==
  /\ postId \in DOMAIN post
  /\ post' = [post EXCEPT ![postId].deleted = FALSE]
  /\ UNCHANGED <<userDeletedAt, db, res, req, followerCreateFails>>
  /\ UNCHANGED service
  /\ UNCHANGED <<page, pageMember, pageFollower, boostedPost, sponsored, reaction,
                 now, feed, expiredCount>>

\* ---------------------------------------------------------------- expiry sweep
\* variant: the sweep matches on endDate alone
ExpiredSponsored_AnyStatus(sp, t) ==
  {id \in SponsoredIds : /\ sp[id] # NoSponsored
                         /\ sp[id].endDate # NullDate
                         /\ sp[id].endDate < t}

\* where: { endDate: { lt: now }, isActive: { in: ["accepted", "pending"] } }
ExpiredSponsored(sp, t) ==
  {id \in SponsoredIds : /\ sp[id].isActive \in {"accepted", "pending"}
                         /\ sp[id].endDate # NullDate
                         /\ sp[id].endDate < t}

\* updateExpiredPosts(): the sponsored table after updateMany
updateExpiredPosts(sp, t) ==
  [id \in SponsoredIds |->
     IF id \in ExpiredSponsored(sp, t) THEN [sp[id] EXCEPT !.isActive = "expired"]
     ELSE sp[id]]

\* startSponsoredScheduler: the hourly cron job runs updateExpiredPosts
SponsoredScheduler ==
  /\ sponsored' = updateExpiredPosts(sponsored, now)
  /\ UNCHANGED <<userDeletedAt, db, res, req, followerCreateFails>>
  /\ UNCHANGED service
  /\ UNCHANGED <<page, pageMember, pageFollower, post, boostedPost, reaction, now,
                 feed, expiredCount>>

\* ---------------------------------------------------------------- timeline specification
\* the tables the timelines read, as other routes have left them: every page
\* with its owner, who is an accepted member of it
DrawnPages ==
  {{PageRow(p, o[p], FALSE) : p \in PageIds} : o \in [PageIds -> UserIds]}

OwnerMembers(pg) == {PageMemberRow(p.ownerId, p.id, "owner") : p \in pg}

\* the posts users may have written: user posts, and page posts for the pages
\* the user may post on (owner, admin or moderator, accepted); deleted ranges
\* over the values drawn for post.deletedAt
WritablePosts(pm, deleted) ==
  {PostRow("user", u, NoPage, d) : u \in UserIds, d \in deleted}
    \cup {PostRow("page", m.userId, m.pageId, d) :
            m \in {g \in pm : g.role \in {"owner", "admin", "moderator"}},
            d \in deleted}

DrawnPosts(pm, deleted) ==
  UNION {[1..n -> WritablePosts(pm, deleted)] : n \in 0..MaxPosts}

\* the posts drawn for the routes that act on one post
MaxReactPosts == 1

\* members promoted to moderator of pages they do not own
DrawnModerators(pg) ==
  SUBSET {PageMemberRow(m[1], m[2].id, "moderator") :
             m \in {n \in UserIds \X pg : n[1] # n[2].ownerId}}

\* the end dates of the boosts drawn
FeedEndDates == {NullDate, 1}

\* boosts of the posts, created at time 0: running ones, and cancelled ones
\* (cancelling sets status rejected and endDate to the time of the cancel)
FeedBoosts(ps) ==
  {BoostedPostRow(k, e, "accepted", 0) : k \in DOMAIN ps, e \in FeedEndDates}
    \cup {BoostedPostRow(k, 0, "rejected", 0) : k \in DOMAIN ps}

\* POST / of the boost routes refuses a second running boost of a post; of the
\* orders the rows may have been created in, the one by postId is drawn
DrawnBoosts(ps) ==
  {bs \in UNION {[1..n -> FeedBoosts(ps)] : n \in 0..MaxFeedBoosts} :
     \A i, j \in DOMAIN bs :
       i < j => /\ bs[i].postId <= bs[j].postId
                /\ bs[i].postId = bs[j].postId
                     => (bs[i].status = "rejected" \/ bs[j].status = "rejected")}

\* the rows the viewers' timelines are composed from, before any boost
InitAudience ==
  /\ userDeletedAt = [u \in UserIds |-> FALSE]
  /\ friendship = {}
  /\ follower \in SUBSET {FollowerRow(v, u) : v \in Viewers, u \in UserIds \ Viewers}
  /\ notification = <<>>
  /\ res = NoResponse
  /\ req = [p \in Requests |-> Idle]
  /\ followerCreateFails = FALSE
  /\ page \in DrawnPages
  /\ pageMember = OwnerMembers(page)
  /\ pageFollower \in SUBSET {PageFollowerRow(v, p) : v \in Viewers, p \in PageIds}
  /\ sponsored = [id \in SponsoredIds |-> NoSponsored]
  /\ reaction = {}
  /\ feed = NoFeed
  /\ expiredCount = 0
  /\ comment = <<>>
  /\ notificationCreateFails = FALSE
  /\ boostReq = [p \in Requests |-> IdleBoost]

InitFeed ==
  /\ InitAudience
  /\ post \in DrawnPosts(pageMember, BOOLEAN)
  /\ boostedPost \in DrawnBoosts(post)
  /\ now \in Times

NextFeed ==
  \/ \E v \in Viewers, pageNo \in 1..MaxPage, limit \in 1..MaxLimit :
       TimelineEnhanced(v, pageNo, limit)
  \/ SponsoredScheduler

\* the enhanced timeline over the posts and boosts other routes have written,
\* at any time of the clock, the expiry sweep running in between
SpecFeed == InitFeed /\ [][NextFeed]_vars

InitVisibility ==
  /\ InitAudience
  /\ post \in DrawnPosts(pageMember, {FALSE})
  /\ boostedPost = <<>>
  /\ now = 0

NextVisibility ==
  \/ \E v \in Viewers, pageNo \in 1..MaxPage, limit \in 1..MaxLimit :
       TimelineEnhanced(v, pageNo, limit)
  \/ \E v \in Viewers, pageNo \in 1..MaxPage, limit \in 1..MaxLimit :
       Timeline(v, pageNo, limit)
  \/ \E u \in UserIds \ Viewers : SoftDeleteUser(u)
  \/ \E u \in UserIds \ Viewers : RestoreUser(u)
  \/ \E p \in PageIds : SoftDeletePage(p)
  \/ \E p \in PageIds : RestorePage(p)
  \/ \E k \in PostIds : SoftDeletePost(k)
  \/ \E k \in PostIds : RestorePost(k)

\* both timelines over the posts other routes have written, the soft-delete
\* markers of users, pages and posts being set and cleared in between
SpecVisibility == InitVisibility /\ [][NextVisibility]_vars

\* ---------------------------------------------------------------- sponsored posts
\* the clock advances
Tick ==
  /\ now < MaxTime
  /\ now' = now + 1
  /\ UNCHANGED <<userDeletedAt, db, res, req, followerCreateFails>>
  /\ UNCHANGED service
  /\ UNCHANGED <<page, pageMember, pageFollower, post, boostedPost, sponsored,
                 reaction, feed, expiredCount>>

\* the ids sponsored.create may hand out: the smallest unused one
FreshSponsoredIds(sp) ==
  {id \in SponsoredIds : /\ sp[id] = NoSponsored
                         /\ \A j \in SponsoredIds : j < id => sp[j] # NoSponsored}

\* POST /createsponsored: the validators want endDate after now
CreateSponsored(endDate) ==
  /\ IF endDate <= now
     THEN Reply("createSponsored", 400) /\ UNCHANGED sponsored
     ELSE /\ \E id \in FreshSponsoredIds(sponsored) :
               sponsored' = [sponsored EXCEPT ![id] = SponsoredRow("pending", endDate)]
          /\ Reply("createSponsored", 201)
  /\ UNCHANGED <<userDeletedAt, db, req, followerCreateFails>>
  /\ UNCHANGED service
  /\ UNCHANGED <<page, pageMember, pageFollower, post, boostedPost, reaction, now,
                 feed, expiredCount>>

\* PUT /accept/:id
AcceptSponsored(id) ==
  /\ IF sponsored[id] = NoSponsored
     THEN Reply("acceptSponsored", 404) /\ UNCHANGED sponsored
     ELSE IF sponsored[id].endDate < now
     THEN /\ sponsored' = [sponsored EXCEPT ![id].isActive = "expired"]
          /\ Reply("acceptSponsored", 400)
     ELSE /\ sponsored' = [sponsored EXCEPT ![id].isActive = "accepted"]
          /\ Reply("acceptSponsored", 200)
  /\ UNCHANGED <<userDeletedAt, db, req, followerCreateFails>>
  /\ UNCHANGED service
  /\ UNCHANGED <<page, pageMember, pageFollower, post, boostedPost, reaction, now,
                 feed, expiredCount>>

\* PUT /reject/:id: sponsored.update throws when the row is missing
RejectSponsored(id) ==
  /\ IF sponsored[id] = NoSponsored
     THEN Reply("rejectSponsored", 500) /\ UNCHANGED sponsored
     ELSE /\ sponsored' = [sponsored EXCEPT ![id].isActive = "rejected"]
          /\ Reply("rejectSponsored", 200)
  /\ UNCHANGED <<userDeletedAt, db, req, followerCreateFails>>
  /\ UNCHANGED service
  /\ UNCHANGED <<page, pageMember, pageFollower, post, boostedPost, reaction, now,
                 feed, expiredCount>>

\* DELETE /:id of the sponsored routes
DeleteSponsored(id) ==
  /\ IF sponsored[id] = NoSponsored
     THEN Reply("deleteSponsored", 404) /\ UNCHANGED sponsored
     ELSE /\ sponsored' = [sponsored EXCEPT ![id] = NoSponsored]
          /\ Reply("deleteSponsored", 200)
  /\ UNCHANGED <<userDeletedAt, db, req, followerCreateFails>>
  /\ UNCHANGED service
  /\ UNCHANGED <<page, pageMember, pageFollower, post, boostedPost, reaction, now,
                 feed, expiredCount>>

\* PATCH /:id of the sponsored routes: any endDate is taken, the status stays
PatchSponsored(id, endDate) ==
  /\ IF sponsored[id] = NoSponsored
     THEN Reply("patchSponsored", 404) /\ UNCHANGED sponsored
     ELSE /\ sponsored' = [sponsored EXCEPT ![id].endDate = endDate]
          /\ Reply("patchSponsored", 200)
  /\ UNCHANGED <<userDeletedAt, db, req, followerCreateFails>>
  /\ UNCHANGED service
  /\ UNCHANGED <<page, pageMember, pageFollower, post, boostedPost, reaction, now,
                 feed, expiredCount>>

\* PUT /update-expired: runs updateExpiredPosts and answers its count
UpdateExpired ==
  /\ sponsored' = updateExpiredPosts(sponsored, now)
  /\ expiredCount' = Cardinality(ExpiredSponsored(sponsored, now))
  /\ Reply("updateExpired", 200)
  /\ UNCHANGED <<userDeletedAt, db, req, followerCreateFails>>
  /\ UNCHANGED service
  /\ UNCHANGED <<page, pageMember, pageFollower, post, boostedPost, reaction, now,
                 feed>>

NextSponsored ==
  \/ \E e \in Times : CreateSponsored(e)
  \/ \E id \in SponsoredIds : AcceptSponsored(id)
  \/ \E id \in SponsoredIds : RejectSponsored(id)
  \/ \E id \in SponsoredIds : DeleteSponsored(id)
  \/ \E id \in SponsoredIds, e \in Times : PatchSponsored(id, e)
  \/ UpdateExpired
  \/ SponsoredScheduler
  \/ Tick

\* the sponsored routes and the expiry sweep, one request at a time, as the
\* clock advances
SpecSponsored == Init /\ [][NextSponsored]_vars

\* ---------------------------------------------------------------- boosted posts
\* user.isProUser: no route of the model clears it, every user holds it
ProUsers == UserIds

\* checkProUser: the user row is alive and a Pro user
checkProUser(userId) == ~userDeletedAt[userId] /\ userId \in ProUsers

\* the author of a user post, or the owner of the alive page of a page post
canBoost(userId, postId) ==
  \/ post[postId].type = "user" /\ post[postId].authorId = userId
  \/ /\ post[postId].type = "page"
     /\ \E p \in AlivePage(post[postId].pageId) : p.ownerId = userId

\* oneWeekAgo.setDate(oneWeekAgo.getDate() - 7): the clock counts weeks
Week == 1

\* weeklyBoosts >= 3
WeeklyBoostLimit == 3

\* checkWeeklyBoostLimit(userId)
checkWeeklyBoostLimit(userId) ==
  Cardinality({i \in DOMAIN boostedPost :
                 /\ post[boostedPost[i].postId].authorId = userId
                 /\ ~post[boostedPost[i].postId].deleted
                 /\ boostedPost[i].createdAt >= now - Week})

\* POST / of the boost routes; endDate is taken as sent
CreateBoostedPost(userId, postId, endDate) ==
  /\ IF ~checkProUser(userId)
     THEN Reply("createBoostedPost", 403) /\ UNCHANGED boostedPost
     ELSE IF postId \notin DOMAIN post \/ post[postId].deleted
     THEN Reply("createBoostedPost", 404) /\ UNCHANGED boostedPost
     ELSE IF ~canBoost(userId, postId)
     THEN Reply("createBoostedPost", 403) /\ UNCHANGED boostedPost
     ELSE IF \E i \in DOMAIN boostedPost :
               boostedPost[i].postId = postId /\ ActiveBoost(boostedPost[i], now)
     THEN Reply("createBoostedPost", 400) /\ UNCHANGED boostedPost
     ELSE IF checkWeeklyBoostLimit(userId) >= WeeklyBoostLimit
     THEN Reply("createBoostedPost", 429) /\ UNCHANGED boostedPost
     ELSE /\ Len(boostedPost) < MaxBoostedPosts
          /\ boostedPost' = Append(boostedPost,
                                   BoostedPostRow(postId, endDate, "accepted", now))
          /\ Reply("createBoostedPost", 201)
  /\ UNCHANGED <<userDeletedAt, db, req, followerCreateFails>>
  /\ UNCHANGED service
  /\ UNCHANGED <<page, pageMember, pageFollower, post, sponsored, reaction, now,
                 feed, expiredCount>>

\* DELETE /:id of the boost routes: the boost is ended now and marked rejected
CancelBoostedPost(userId, id) ==
  /\ IF ~checkProUser(userId)
     THEN Reply("cancelBoostedPost", 403) /\ UNCHANGED boostedPost
     ELSE IF id \notin DOMAIN boostedPost
     THEN Reply("cancelBoostedPost", 404) /\ UNCHANGED boostedPost
     ELSE IF ~canBoost(userId, boostedPost[id].postId)
     THEN Reply("cancelBoostedPost", 403) /\ UNCHANGED boostedPost
     ELSE /\ boostedPost' = [boostedPost EXCEPT ![id].endDate = now,
                                                ![id].status = "rejected"]
          /\ Reply("cancelBoostedPost", 200)
  /\ UNCHANGED <<userDeletedAt, db, req, followerCreateFails>>
  /\ UNCHANGED service
  /\ UNCHANGED <<page, pageMember, pageFollower, post, sponsored, reaction, now,
                 feed, expiredCount>>

\* the end dates a boost request carries
BoostEndDates == {NullDate, 1}

\* the pages and posts the boost routes find, no boost made yet
InitBoost ==
  /\ userDeletedAt = [u \in UserIds |-> FALSE]
  /\ friendship = {}
  /\ follower = {}
  /\ notification = <<>>
  /\ res = NoResponse
  /\ req = [p \in Requests |-> Idle]
  /\ followerCreateFails = FALSE
  /\ page \in DrawnPages
  /\ pageMember = OwnerMembers(page)
  /\ pageFollower = {}
  /\ post \in {ps \in DrawnPosts(pageMember, {FALSE}) : Len(ps) <= MaxReactPosts}
  /\ boostedPost = <<>>
  /\ sponsored = [id \in SponsoredIds |-> NoSponsored]
  /\ reaction = {}
  /\ now = 0
  /\ feed = NoFeed
  /\ expiredCount = 0
  /\ comment = <<>>
  /\ notificationCreateFails = FALSE
  /\ boostReq = [p \in Requests |-> IdleBoost]

NextBoost ==
  \/ \E u \in UserIds, k \in PostIds, e \in BoostEndDates : CreateBoostedPost(u, k, e)
  \/ \E u \in UserIds, i \in 1..MaxBoostedPosts : CancelBoostedPost(u, i)
  \/ UpdateExpired
  \/ SponsoredScheduler
  \/ Tick

\* the boost routes and the expiry sweep, one request at a time, as the clock
\* advances
SpecBoost == InitBoost /\ [][NextBoost]_vars

\* ---------------------------------------------------------------- reactions
\* createLikeNotification: post.type === "user" ? post.authorId : post.page?.ownerId
likeRecipients(postId) ==
  IF post[postId].type = "user" THEN {post[postId].authorId}
  ELSE {p.ownerId : p \in {q \in page : q.id = post[postId].pageId}}

\* variant: the sender is notified of reactions to the sender's own posts too
createLikeNotification_NotifySelf(ns, senderId, postId) ==
  IF postId \notin DOMAIN post \/ likeRecipients(postId) = {} THEN ns
  ELSE NotificationCreate(ns, NotificationRow(CHOOSE r \in likeRecipients(postId) : TRUE, senderId,
                              IF post[postId].type = "user" THEN "like" ELSE "page_like"))

\* NotificationService.createLikeNotification(senderId, postId, reactionType);
\* a create without recipient throws and the catch swallows it
createLikeNotification(ns, senderId, postId) ==
  IF postId \notin DOMAIN post \/ likeRecipients(postId) = {} THEN ns
  ELSE IF senderId \in likeRecipients(postId) THEN ns
  ELSE NotificationCreate(ns, NotificationRow(CHOOSE r \in likeRecipients(postId) : TRUE, senderId,
                              IF post[postId].type = "user" THEN "like" ELSE "page_like"))

\* reaction.findUnique({ where: { userId_postId } })
ReactionOf(rs, userId, postId) == {r \in rs : r.userId = userId /\ r.postId = postId}

\* variant: the reaction held is not looked up, every request writes a row
React_KeepsExisting(userId, postId, type) ==
  /\ IF postId \notin DOMAIN post
     THEN Reply("react", 500) /\ UNCHANGED <<reaction, notification>>
     ELSE /\ reaction' = reaction \cup {ReactionRow(userId, postId, type)}
          /\ notification' = createLikeNotification(notification, userId, postId)
          /\ Reply("react", 201)
  /\ Len(notification') <= MaxNotifications
  /\ UNCHANGED <<userDeletedAt, friendship, follower, req, followerCreateFails>>
  /\ UNCHANGED service
  /\ UNCHANGED <<page, pageMember, pageFollower, post, boostedPost, sponsored, now,
                 feed, expiredCount>>

\* POST /:postId/react: create, remove (same type) or change (other type)
React(userId, postId, type) ==
  LET existing == ReactionOf(reaction, userId, postId) IN
  /\ IF existing = {}
     THEN IF postId \notin DOMAIN post
          THEN Reply("react", 500) /\ UNCHANGED <<reaction, notification>>
          ELSE /\ reaction' = reaction \cup {ReactionRow(userId, postId, type)}
               /\ notification' = createLikeNotification(notification, userId, postId)
               /\ Reply("react", 201)
     ELSE IF \E r \in existing : r.type = type
     THEN /\ reaction' = reaction \ existing
          /\ UNCHANGED notification
          /\ Reply("react", 200)
     ELSE /\ reaction' = (reaction \ existing) \cup {ReactionRow(userId, postId, type)}
          /\ notification' = createLikeNotification(notification, userId, postId)
          /\ Reply("react", 200)
  /\ Len(notification') <= MaxNotifications
  /\ UNCHANGED <<userDeletedAt, friendship, follower, req, followerCreateFails>>
  /\ UNCHANGED service
  /\ UNCHANGED <<page, pageMember, pageFollower, post, boostedPost, sponsored, now,
                 feed, expiredCount>>

\* the pages, members and posts the reaction route finds, no reaction made yet
InitReact ==
  /\ userDeletedAt = [u \in UserIds |-> FALSE]
  /\ friendship = {}
  /\ follower = {}
  /\ notification = <<>>
  /\ res = NoResponse
  /\ req = [p \in Requests |-> Idle]
  /\ followerCreateFails = FALSE
  /\ page \in DrawnPages
  /\ \E ms \in DrawnModerators(page) : pageMember = OwnerMembers(page) \cup ms
  /\ pageFollower = {}
  /\ post \in {ps \in DrawnPosts(pageMember, {FALSE}) : Len(ps) <= MaxReactPosts}
  /\ boostedPost = <<>>
  /\ sponsored = [id \in SponsoredIds |-> NoSponsored]
  /\ reaction = {}
  /\ now = 0
  /\ feed = NoFeed
  /\ expiredCount = 0
  /\ comment = <<>>
  /\ notificationCreateFails = FALSE
  /\ boostReq = [p \in Requests |-> IdleBoost]

NextReact ==
  \/ \E u \in UserIds, k \in 1..(MaxReactPosts + 1), t \in ReactionTypes : React(u, k, t)
  \/ \E u \in UserIds, n \in 1..MaxNotifications : DeleteNotification(u, n)

\* the reaction route, one request at a time, over the posts other routes wrote
SpecReact == InitReact /\ [][NextReact]_vars

\* the boost routes as the clock advances, over pages whose staff wrote posts
NextWeekly ==
  \/ \E u \in UserIds, k \in 1..MaxReactPosts, e \in BoostEndDates : CreateBoostedPost(u, k, e)
  \/ \E u \in UserIds, i \in 1..MaxBoostedPosts : CancelBoostedPost(u, i)
  \/ Tick

SpecWeekly == InitReact /\ [][NextWeekly]_vars

\* ---------------------------------------------------------------- boost requests in flight
\* POST / of the boost routes up to the weekly check: the lookups of one
\* request, run between the awaits of other requests
CreateBoostedPostCheck(p, userId, postId, endDate) ==
  /\ boostReq[p].pc = "idle"
  /\ \A q \in Requests : q < p => boostReq[q].pc # "idle"
  /\ IF ~checkProUser(userId)
     THEN Reply("createBoostedPost", 403) /\ UNCHANGED boostReq
     ELSE IF postId \notin DOMAIN post \/ post[postId].deleted
     THEN Reply("createBoostedPost", 404) /\ UNCHANGED boostReq
     ELSE IF ~canBoost(userId, postId)
     THEN Reply("createBoostedPost", 403) /\ UNCHANGED boostReq
     ELSE IF \E i \in DOMAIN boostedPost :
               boostedPost[i].postId = postId /\ ActiveBoost(boostedPost[i], now)
     THEN Reply("createBoostedPost", 400) /\ UNCHANGED boostReq
     ELSE IF checkWeeklyBoostLimit(userId) >= WeeklyBoostLimit
     THEN Reply("createBoostedPost", 429) /\ UNCHANGED boostReq
     ELSE /\ boostReq' = [boostReq EXCEPT ![p] = [pc |-> "create", userId |-> userId,
                                                  postId |-> postId, endDate |-> endDate]]
          /\ UNCHANGED res
  /\ UNCHANGED <<userDeletedAt, db, req, followerCreateFails, comment, notificationCreateFails>>
  /\ UNCHANGED <<page, pageMember, pageFollower, post, boostedPost, sponsored, reaction,
                 now, feed, expiredCount>>

\* POST / of the boost routes from boostedPost.create on
CreateBoostedPostCreate(p) ==
  /\ boostReq[p].pc = "create"
  /\ Len(boostedPost) < MaxBoostedPosts
  /\ boostedPost' = Append(boostedPost,
                           BoostedPostRow(boostReq[p].postId, boostReq[p].endDate,
                                          "accepted", now))
  /\ boostReq' = [boostReq EXCEPT ![p] = IdleBoost]
  /\ Reply("createBoostedPost", 201)
  /\ UNCHANGED <<userDeletedAt, db, req, followerCreateFails, comment, notificationCreateFails>>
  /\ UNCHANGED <<page, pageMember, pageFollower, post, sponsored, reaction, now, feed,
                 expiredCount>>

NextBoostParallel ==
  \/ \E p \in Requests, u \in UserIds, k \in 1..(MaxReactPosts + 1), e \in BoostEndDates :
       CreateBoostedPostCheck(p, u, k, e)
  \/ \E p \in Requests : CreateBoostedPostCreate(p)
  \/ Tick

\* boost requests interleaved at their awaits
SpecBoostParallel == InitBoost /\ [][NextBoostParallel]_vars

\* ---------------------------------------------------------------- comments, page follows
CommentRow(userId, postId) == [userId |-> userId, postId |-> postId]

\* the comments kept by the model
MaxComments == 1

\* variant: the author of a post is told of the author's own comments too
createCommentNotification_NotifySelf(ns, senderId, postId) ==
  IF postId \notin DOMAIN post \/ likeRecipients(postId) = {} THEN ns
  ELSE NotificationCreate(ns, NotificationRow(CHOOSE r \in likeRecipients(postId) : TRUE,
                                              senderId, "comment"))

\* NotificationService.createCommentNotification(senderId, postId, commentId, content);
\* the recipient is found as for a like
createCommentNotification(ns, senderId, postId) ==
  IF postId \notin DOMAIN post \/ likeRecipients(postId) = {} THEN ns
  ELSE IF senderId \in likeRecipients(postId) THEN ns
  ELSE NotificationCreate(ns, NotificationRow(CHOOSE r \in likeRecipients(postId) : TRUE,
                                              senderId, "comment"))

\* variant: createCommentNotification lets the error of the insert through, and
\* the catch of the route answers 500 after the comment was stored
Comment_NotificationThrows(userId, postId) ==
  /\ IF postId \notin DOMAIN post
     THEN Reply("comment", 500) /\ UNCHANGED <<comment, notification>>
     ELSE /\ comment' = Append(comment, CommentRow(userId, postId))
          /\ notification' = createCommentNotification(notification, userId, postId)
          /\ IF notificationCreateFails /\ userId \notin likeRecipients(postId)
             THEN Reply("comment", 500)
             ELSE Reply("comment", 201)
  /\ Len(comment') <= MaxComments
  /\ Len(notification') <= MaxNotifications
  /\ UNCHANGED <<userDeletedAt, friendship, follower, req, followerCreateFails>>
  /\ UNCHANGED <<page, pageMember, pageFollower, post, boostedPost, sponsored,
                 reaction, now, feed, expiredCount, notificationCreateFails, boostReq>>

\* POST /:postId of the comment routes; comment.postId references post.id
Comment(userId, postId) ==
  /\ IF postId \notin DOMAIN post
     THEN Reply("comment", 500) /\ UNCHANGED <<comment, notification>>
     ELSE /\ comment' = Append(comment, CommentRow(userId, postId))
          /\ notification' = createCommentNotification(notification, userId, postId)
          /\ Reply("comment", 201)
  /\ Len(comment') <= MaxComments
  /\ Len(notification') <= MaxNotifications
  /\ UNCHANGED <<userDeletedAt, friendship, follower, req, followerCreateFails>>
  /\ UNCHANGED <<page, pageMember, pageFollower, post, boostedPost, sponsored,
                 reaction, now, feed, expiredCount, notificationCreateFails, boostReq>>

\* prisma.page.findUnique({ where: { id: pageId } }), whatever its deletedAt
PageById(pageId) == {p \in page : p.id = pageId}

\* NotificationService.createPageFollowNotification(senderId, pageId)
createPageFollowNotification(ns, senderId, pageId) ==
  IF PageById(pageId) = {} \/ (\E p \in PageById(pageId) : p.ownerId = senderId) THEN ns
  ELSE NotificationCreate(ns, NotificationRow((CHOOSE p \in PageById(pageId) : TRUE).ownerId,
                                              senderId, "page_follow"))

\* POST /:pageId/follow
FollowPage(userId, pageId) ==
  /\ IF PageById(pageId) = {}
     THEN Reply("followPage", 404) /\ UNCHANGED <<pageFollower, notification>>
     ELSE IF \E p \in PageById(pageId) : p.ownerId = userId
     THEN Reply("followPage", 400) /\ UNCHANGED <<pageFollower, notification>>
     ELSE IF PageFollowerRow(userId, pageId) \in pageFollower
     THEN Reply("followPage", 400) /\ UNCHANGED <<pageFollower, notification>>
     ELSE /\ pageFollower' = pageFollower \cup {PageFollowerRow(userId, pageId)}
          /\ notification' = createPageFollowNotification(notification, userId, pageId)
          /\ Reply("followPage", 201)
  /\ Len(notification') <= MaxNotifications
  /\ UNCHANGED <<userDeletedAt, friendship, follower, req, followerCreateFails>>
  /\ UNCHANGED <<page, pageMember, post, boostedPost, sponsored, reaction, now, feed,
                 expiredCount, service>>

\* every route that calls a create operation of the NotificationService, one
\* request at a time, over the pages and posts other routes wrote
NextNotify ==
  \/ \E s \in UserIds, r \in UserIds : SendFriendRequest(s, r)
  \/ \E id \in FriendshipIds, u \in UserIds : AcceptFriendRequest(id, u)
  \/ \E u \in UserIds, t \in UserIds : Follow(u, t)
  \/ \E u \in UserIds, k \in 1..MaxReactPosts, t \in ReactionTypes : React(u, k, t)
  \/ \E u \in UserIds, k \in 1..(MaxReactPosts + 1) : Comment(u, k)
  \/ \E u \in UserIds, p \in PageIds \cup {NoPage} : FollowPage(u, p)

SpecNotify == InitReact /\ [][NextNotify]_vars

\* the store starts rejecting notification.create
NotificationCreateStartsFailing ==
  /\ ~notificationCreateFails
  /\ notificationCreateFails' = TRUE
  /\ UNCHANGED <<userDeletedAt, db, res, req, followerCreateFails, comment, boostReq>>
  /\ UNCHANGED <<page, pageMember, pageFollower, post, boostedPost, sponsored,
                 reaction, now, feed, expiredCount>>

\* the store accepts notification.create again
NotificationCreateRecovers ==
  /\ notificationCreateFails
  /\ notificationCreateFails' = FALSE
  /\ UNCHANGED <<userDeletedAt, db, res, req, followerCreateFails, comment, boostReq>>
  /\ UNCHANGED <<page, pageMember, pageFollower, post, boostedPost, sponsored,
                 reaction, now, feed, expiredCount>>

NextNotifyFault ==
  \/ \E s \in UserIds, r \in UserIds : SendFriendRequest(s, r)
  \/ \E u \in UserIds, t \in UserIds : Follow(u, t)
  \/ \E u \in UserIds, k \in 1..MaxReactPosts, t \in ReactionTypes : React(u, k, t)
  \/ \E u \in UserIds, k \in 1..MaxReactPosts : Comment(u, k)
  \/ NotificationCreateStartsFailing
  \/ NotificationCreateRecovers

\* the notifying routes over a store whose notification.create may throw; the
\* pages are run by their owners alone
InitNotifyFault == InitReact /\ pageMember = OwnerMembers(page)

SpecNotifyFault == InitNotifyFault /\ [][NextNotifyFault]_vars

\* ---------------------------------------------------------------- page join requests
\* pageMember.create({ data: { userId, pageId, role: "member", status: "pending" } })
PageMemberRequestRow(userId, pageId) == [userId |-> userId, pageId |-> pageId, role |-> "member", status |-> "pending"]

\* prisma.pageMember.findUnique({ where: { userId_pageId } })
PageMemberOf(userId, pageId) == {m \in pageMember : m.userId = userId /\ m.pageId = pageId}

\* NotificationService.createNotification({ userId, senderId, type, ... }): the
\* class has no such method, the call throws a TypeError and the try/catch
\* around the call in the route logs it
createNotification(ns, to, from, type) == ns

\* isOwner || pageData.members.length > 0
hasPermission(userId, pageId) ==
  \/ \E p \in PageById(pageId) : p.ownerId = userId
  \/ \E m \in PageMemberOf(userId, pageId) :
       m.status = "accepted" /\ m.role \in {"admin", "moderator", "owner"}

\* POST /:pageId/join
JoinPage(userId, pageId) ==
  /\ IF PageById(pageId) = {}
     THEN Reply("joinPage", 404) /\ UNCHANGED <<pageMember, notification>>
     ELSE IF \E p \in PageById(pageId) : p.ownerId = userId
     THEN Reply("joinPage", 400) /\ UNCHANGED <<pageMember, notification>>
     ELSE IF PageMemberOf(userId, pageId) # {}
     THEN Reply("joinPage", 400) /\ UNCHANGED <<pageMember, notification>>
     ELSE /\ pageMember' = pageMember \cup {PageMemberRequestRow(userId, pageId)}
          /\ notification' =
               createNotification(notification,
                                  (CHOOSE p \in PageById(pageId) : TRUE).ownerId, userId,
                                  "page_follow")
          /\ Reply("joinPage", 201)
  /\ UNCHANGED <<userDeletedAt, friendship, follower, req, followerCreateFails>>
  /\ UNCHANGED <<page, pageFollower, post, boostedPost, sponsored, reaction, now, feed,
                 expiredCount, service>>

\* PATCH /:pageId/approve-request/:userId
ApproveRequest(userId, pageId, targetUserId) ==
  /\ IF PageById(pageId) = {}
     THEN Reply("approveRequest", 404) /\ UNCHANGED <<pageMember, notification>>
     ELSE IF ~hasPermission(userId, pageId)
     THEN Reply("approveRequest", 403) /\ UNCHANGED <<pageMember, notification>>
     ELSE IF PageMemberOf(targetUserId, pageId) = {}
     THEN Reply("approveRequest", 404) /\ UNCHANGED <<pageMember, notification>>
     ELSE IF \E m \in PageMemberOf(targetUserId, pageId) : m.status # "pending"
     THEN Reply("approveRequest", 400) /\ UNCHANGED <<pageMember, notification>>
     ELSE /\ pageMember' = (pageMember \ PageMemberOf(targetUserId, pageId))
                             \cup {[m EXCEPT !.status = "accepted"] :
                                     m \in PageMemberOf(targetUserId, pageId)}
          /\ notification' =
               createNotification(notification, targetUserId, userId, "page_follow")
          /\ Reply("approveRequest", 200)
  /\ UNCHANGED <<userDeletedAt, friendship, follower, req, followerCreateFails>>
  /\ UNCHANGED <<page, pageFollower, post, boostedPost, sponsored, reaction, now, feed,
                 expiredCount, service>>

\* PATCH /:pageId/reject-request/:userId
RejectRequest(userId, pageId, targetUserId) ==
  /\ IF PageById(pageId) = {}
     THEN Reply("rejectRequest", 404) /\ UNCHANGED <<pageMember, notification>>
     ELSE IF ~hasPermission(userId, pageId)
     THEN Reply("rejectRequest", 403) /\ UNCHANGED <<pageMember, notification>>
     ELSE IF PageMemberOf(targetUserId, pageId) = {}
     THEN Reply("rejectRequest", 404) /\ UNCHANGED <<pageMember, notification>>
     ELSE IF \E m \in PageMemberOf(targetUserId, pageId) : m.status # "pending"
     THEN Reply("rejectRequest", 400) /\ UNCHANGED <<pageMember, notification>>
     ELSE /\ pageMember' = pageMember \ PageMemberOf(targetUserId, pageId)
          /\ notification' =
               createNotification(notification, targetUserId, userId, "page_follow")
          /\ Reply("rejectRequest", 200)
  /\ UNCHANGED <<userDeletedAt, friendship, follower, req, followerCreateFails>>
  /\ UNCHANGED <<page, pageFollower, post, boostedPost, sponsored, reaction, now, feed,
                 expiredCount, service>>

\* the pages and their staff, before anyone asks to join
InitJoin == InitReact /\ post = <<>>

NextJoin ==
  \/ \E u \in UserIds, p \in PageIds \cup {NoPage} : JoinPage(u, p)
  \/ \E u \in UserIds, p \in PageIds \cup {NoPage}, t \in UserIds : ApproveRequest(u, p, t)
  \/ \E u \in UserIds, p \in PageIds \cup {NoPage}, t \in UserIds : RejectRequest(u, p, t)
  \/ \E u \in UserIds, p \in PageIds \cup {NoPage} : FollowPage(u, p)

\* the page membership routes, one request at a time
SpecJoin == InitJoin /\ [][NextJoin]_vars

\* ---------------------------------------------------------------- reading notifications
\* a notification is named by its position in the table
NotificationIds == 1..(MaxNotifications + 1)

\* variant: updateMany without the userId of the caller in its where
markAsRead_AnyRecipient(ns, userId, notificationIds) ==
  [n \in DOMAIN ns |->
     IF n \in notificationIds THEN [ns[n] EXCEPT !.isRead = TRUE] ELSE ns[n]]

\* NotificationService.markAsRead(userId, notificationIds):
\* updateMany({ where: { id: { in: notificationIds }, userId }, data: { isRead: true } })
markAsRead(ns, userId, notificationIds) ==
  [n \in DOMAIN ns |->
     IF n \in notificationIds /\ ns[n].userId = userId
     THEN [ns[n] EXCEPT !.isRead = TRUE] ELSE ns[n]]

\* NotificationService.markAllAsRead(userId):
\* updateMany({ where: { userId, isRead: false }, data: { isRead: true } })
markAllAsRead(ns, userId) ==
  [n \in DOMAIN ns |->
     IF ns[n].userId = userId /\ ~ns[n].isRead
     THEN [ns[n] EXCEPT !.isRead = TRUE] ELSE ns[n]]

\* notification.delete({ where: { id } }) of a row that exists
NotificationDelete(ns, n) ==
  [k \in 1..(Len(ns) - 1) |-> IF k < n THEN ns[k] ELSE ns[k + 1]]

\* PUT /read; notificationIds must be a non-empty array
MarkAsRead(userId, notificationIds) ==
  /\ IF notificationIds = {}
     THEN Reply("markAsRead", 400) /\ UNCHANGED notification
     ELSE /\ notification' = markAsRead(notification, userId, notificationIds)
          /\ Reply("markAsRead", 200)
  /\ UNCHANGED <<userDeletedAt, friendship, follower, req, followerCreateFails>>
  /\ UNCHANGED content

\* PUT /read-all
MarkAllAsRead(userId) ==
  /\ notification' = markAllAsRead(notification, userId)
  /\ Reply("markAllAsRead", 200)
  /\ UNCHANGED <<userDeletedAt, friendship, follower, req, followerCreateFails>>
  /\ UNCHANGED content

\* DELETE /:notificationId; NotificationService.deleteNotification throws when
\* no row has this id and this recipient, and the route answers 500
DeleteNotificationById(userId, notificationId) ==
  /\ IF notificationId \in DOMAIN notification /\ notification[notificationId].userId = userId
     THEN /\ notification' = NotificationDelete(notification, notificationId)
          /\ Reply("deleteNotification", 200)
     ELSE /\ UNCHANGED notification
          /\ Reply("deleteNotification", 500)
  /\ UNCHANGED <<userDeletedAt, friendship, follower, req, followerCreateFails>>
  /\ UNCHANGED content

\* GET /:notificationId: the row is marked as read when its recipient views it
ViewNotification(userId, notificationId) ==
  /\ IF notificationId \in DOMAIN notification /\ notification[notificationId].userId = userId
     THEN /\ notification' = [notification EXCEPT ![notificationId].isRead = TRUE]
          /\ Reply("viewNotification", 200)
     ELSE /\ UNCHANGED notification
          /\ Reply("viewNotification", 404)
  /\ UNCHANGED <<userDeletedAt, friendship, follower, req, followerCreateFails>>
  /\ UNCHANGED content

\* the notifications the create operations may have written, all unread
DrawnNotifications ==
  UNION {[1..n -> {NotificationRow(to, from, type) :
                     to \in UserIds, from \in UserIds, type \in {"follow", "like"}}
                    \ {NotificationRow(u, u, type) : u \in UserIds, type \in {"follow", "like"}}]
           : n \in 0..MaxNotifications}

InitRead ==
  /\ userDeletedAt = [u \in UserIds |-> FALSE]
  /\ friendship = {}
  /\ follower = {}
  /\ notification \in DrawnNotifications
  /\ res = NoResponse
  /\ req = [p \in Requests |-> Idle]
  /\ followerCreateFails = FALSE
  /\ page = {}
  /\ pageMember = {}
  /\ pageFollower = {}
  /\ post = <<>>
  /\ boostedPost = <<>>
  /\ sponsored = [id \in SponsoredIds |-> NoSponsored]
  /\ reaction = {}
  /\ now = 0
  /\ feed = NoFeed
  /\ expiredCount = 0
  /\ comment = <<>>
  /\ notificationCreateFails = FALSE
  /\ boostReq = [p \in Requests |-> IdleBoost]

NextRead ==
  \/ \E u \in UserIds, ids \in SUBSET NotificationIds : MarkAsRead(u, ids)
  \/ \E u \in UserIds : MarkAllAsRead(u)
  \/ \E u \in UserIds, n \in NotificationIds : DeleteNotificationById(u, n)
  \/ \E u \in UserIds, n \in NotificationIds : ViewNotification(u, n)

\* the read side of the notification routes, one request at a time
SpecRead == InitRead /\ [][NextRead]_vars

\* ---------------------------------------------------------------- properties
PendingFrom(fs, a, b) ==
  {f \in fs : f.userAId = a /\ f.userBId = b /\ f.status = "pending"}

AcceptedBetween(fs, a, b) ==
  {f \in FriendshipBetween(fs, a, b) : f.status = "accepted"}

\* the rows a step appended to the notification table
Appended(old, new) ==
  IF Len(new) >= Len(old) /\ SubSeq(new, 1, Len(old)) = old
  THEN {new[k] : k \in (Len(old) + 1)..Len(new)}
  ELSE {}

RelationUnchanged == friendship' = friendship /\ follower' = follower

NoRequestRunning == \A p \in Requests : req[p].pc = "idle"

\* C1 (as claimed): whatever the interleaving of sendFriendRequest and follow
\* requests, an unordered pair of users has at most one Friendship row, the rows
\* (A,B) and (B,A) counted together.
C1_OneFriendshipPerPair ==
  \A a, b \in UserIds : Cardinality(FriendshipBetween(friendship, a, b)) <= 1

\* C2 (as claimed): once the requests that ran, in sequence or interleaved, have
\* all completed, every accepted Friendship has both Follower rows A->B and B->A.
C2_AcceptedImpliesMutualFollow ==
  NoRequestRunning
    => \A f \in friendship :
         f.status = "accepted"
           => /\ Follows(follower, f.userAId, f.userBId)
              /\ Follows(follower, f.userBId, f.userAId)

\* C3 (as claimed): the auto-accept path of sendFriendRequest applies the status
\* change and the creation of the missing Follower rows as one step: while it
\* runs, no reader finds the Friendship accepted with one of its two Follower
\* rows missing.
C3_AutoAcceptIsAtomic ==
  \A p \in Requests :
    req[p].pc \in {"request_update", "request_find", "request_create"}
      => \A f \in FriendshipById(friendship, req[p].fid) :
           f.status = "accepted"
             => /\ Follows(follower, f.userAId, f.userBId)
                /\ Follows(follower, f.userBId, f.userAId)

\* C4 (as claimed): when follower.create fails while a friendship is being
\* accepted, by acceptFriendRequest or by the auto-accept path of
\* sendFriendRequest, the Friendship is still pending afterwards and the
\* Follower set is the one before the operation.
C4_AcceptRollsBackOnFollowerFailure ==
  [][\A u, v \in UserIds :
       /\ (/\ followerCreateFails
           /\ PendingFrom(friendship, v, u) # {}
           /\ ~(Follows(follower, u, v) /\ Follows(follower, v, u))
           /\ \/ SendFriendRequest(u, v)
              \/ \E f \in PendingFrom(friendship, v, u) : AcceptFriendRequest(f.id, u))
          => /\ PendingFrom(friendship', v, u) = PendingFrom(friendship, v, u)
             /\ follower' = follower]_vars

\* C5: when Friendship(A,B) is pending and B sends a friend request to A, the
\* existing row becomes accepted, the pair still has exactly that one row, both
\* Follower rows exist afterwards and exactly one notification is added: a
\* friend_accept addressed to A with B as sender.
C5_AutoAcceptOppositeRequest ==
  [][\A a, b \in UserIds :
       (PendingFrom(friendship, a, b) # {} /\ SendFriendRequest(b, a))
       => /\ friendship' =
               {IF f \in PendingFrom(friendship, a, b)
                THEN [f EXCEPT !.status = "accepted"] ELSE f : f \in friendship}
          /\ Cardinality(FriendshipBetween(friendship', a, b)) = 1
          /\ Follows(follower', a, b) /\ Follows(follower', b, a)
          /\ Len(notification') = Len(notification) + 1
          /\ Appended(notification, notification')
               = {NotificationRow(a, b, "friend_accept")}]_vars

\* C5 witness: an auto-accepting sendFriendRequest has answered
C5_Witness ==
  /\ res.op = "sendFriendRequest" /\ res.status = 200
  /\ Len(notification) > 0
  /\ \E f \in friendship :
       /\ f.status = "accepted"
       /\ Follows(follower, f.userAId, f.userBId)
       /\ Follows(follower, f.userBId, f.userAId)
       /\ notification[Len(notification)]
            = NotificationRow(f.userAId, f.userBId, "friend_accept")

\* C6: with no Friendship and no Follower row between A and B, sendFriendRequest(A,B)
\* adds exactly Friendship(userA=A, userB=B, pending) and Follower A->B, adds a
\* friend_request notification addressed to B and adds no notification addressed to A.
C6_NewRequest ==
  [][\A a, b \in UserIds :
       (/\ a # b
        /\ FriendshipBetween(friendship, a, b) = {}
        /\ ~Follows(follower, a, b) /\ ~Follows(follower, b, a)
        /\ SendFriendRequest(a, b))
       => /\ \E id \in FriendshipIds :
               /\ \A f \in friendship : f.id # id
               /\ friendship' = friendship \cup {FriendshipRow(id, a, b, "pending")}
          /\ follower' = follower \cup {FollowerRow(a, b)}
          /\ NotificationRow(b, a, "friend_request")
               \in Appended(notification, notification')
          /\ \A n \in Appended(notification, notification') : n.userId # a
          /\ res'.status = 201]_vars

\* C6 witness: a first friend request between two users has been stored
C6_Witness ==
  /\ res.op = "sendFriendRequest" /\ res.status = 201
  /\ \E a, b \in UserIds :
       /\ friendship = {FriendshipRow(1, a, b, "pending")}
       /\ follower = {FollowerRow(a, b)}
       /\ \E k \in 1..Len(notification) :
            notification[k] = NotificationRow(b, a, "friend_request")
       /\ \A k \in 1..Len(notification) : notification[k].userId # a

\* C7 (as claimed): sendFriendRequest fails and leaves Friendship and Follower
\* unchanged when sender = receiver (400), when the receiver is missing or
\* soft-deleted (404), and when the pair already has an accepted Friendship (400).
C7_SendFriendRequestRejections ==
  [][\A s \in UserIds, r \in UserIds \cup {NoUser} :
       SendFriendRequest(s, r)
       => /\ (s = r) => (res'.status = 400 /\ RelationUnchanged)
          /\ (s # r /\ (r = NoUser \/ userDeletedAt[r]))
               => (res'.status = 404 /\ RelationUnchanged)
          /\ (s # r /\ r # NoUser /\ ~userDeletedAt[r]
                /\ AcceptedBetween(friendship, s, r) # {})
               => (res'.status = 400 /\ RelationUnchanged)]_vars

\* C8: acceptFriendRequest changes Friendship or Follower only when the actor is
\* the row's userB and the row is pending; an actor other than userB is answered
\* 403 and userB accepting a row that is not pending is answered 400, both
\* leaving Friendship and Follower unchanged.
C8_AcceptOnlyByReceiverWhenPending ==
  [][\A id \in FriendshipIds \cup {NoFriendship}, u \in UserIds :
       AcceptFriendRequest(id, u)
       => /\ \A f \in FriendshipById(friendship, id) :
               /\ f.userBId # u => (res'.status = 403 /\ RelationUnchanged)
               /\ (f.userBId = u /\ f.status # "pending")
                    => (res'.status = 400 /\ RelationUnchanged)
          /\ ~RelationUnchanged
               => \E f \in FriendshipById(friendship, id) :
                    f.userBId = u /\ f.status = "pending"]_vars

\* C8 witness: the receiver tried to accept a friendship that is already accepted
C8_Witness ==
  /\ res.op = "acceptFriendRequest" /\ res.status = 400
  /\ \E f \in friendship : f.status = "accepted"

\* C9 (as claimed): cancelFriendRequest and rejectFriendRequest delete only the
\* Friendship row; the Follower set is the same before and after.
C9_CancelRejectKeepFollowers ==
  [][\A id \in FriendshipIds, u \in UserIds :
       (CancelFriendRequest(id, u) \/ RejectFriendRequest(id, u))
       => follower' = follower]_vars

\* C9 (amended): rejectFriendRequest deletes only the Friendship row and leaves
\* the Follower set as it was; cancelFriendRequest deletes the Friendship row and
\* also the Follower row requester -> receiver, and no other Follower row.
C9_RejectKeepsCancelRemovesFollow ==
  [][\A id \in FriendshipIds, u \in UserIds :
       /\ (RejectFriendRequest(id, u) /\ res'.status = 200)
            => /\ follower' = follower
               /\ friendship' = friendship \ FriendshipById(friendship, id)
       /\ (CancelFriendRequest(id, u) /\ res'.status = 200)
            => /\ \E f \in FriendshipById(friendship, id) :
                    follower' = follower \ {FollowerRow(f.userAId, f.userBId)}
               /\ friendship' = friendship \ FriendshipById(friendship, id)]_vars

\* C9 witness: a request was cancelled and took the requester's follow with it
C9_Witness ==
  /\ res.op = "cancelFriendRequest" /\ res.status = 200
  /\ friendship = {} /\ follower = {}

\* C10: unfriend(A,B) succeeds exactly when an accepted Friendship between A and B
\* exists in either orientation; when it fails nothing changes, and when it
\* succeeds no Friendship row of the pair and neither Follower row A->B, B->A remains.
C10_Unfriend ==
  [][\A u \in UserIds, t \in UserIds \cup {NoUser} :
       Unfriend(u, t)
       => /\ (res'.status = 200) <=> (u # t /\ AcceptedBetween(friendship, u, t) # {})
          /\ res'.status # 200 => UNCHANGED db
          /\ res'.status = 200
               => /\ FriendshipBetween(friendship', u, t) = {}
                  /\ ~Follows(follower', u, t) /\ ~Follows(follower', t, u)
                  /\ \A f \in friendship \ friendship' : f \in AcceptedBetween(friendship, u, t)
                  /\ \A f \in follower \ follower' :
                       f \in {FollowerRow(u, t), FollowerRow(t, u)}]_vars

\* C10 witness: an unfriend has succeeded and severed the pair
C10_Witness ==
  /\ res.op = "unfriend" /\ res.status = 200
  /\ friendship = {} /\ follower = {}

\* C11: follow(A,B) creates an accepted Friendship between A and B exactly when
\* B already follows A and no Friendship row of any status exists between them;
\* in every other successful case only the Follower row A->B is added and the
\* Friendship set is unchanged; a refused follow changes neither table.
C11_FollowMutualCreatesFriendship ==
  [][\A u \in UserIds, t \in UserIds \cup {NoUser} :
       Follow(u, t)
       => LET mutual == /\ Follows(follower, t, u)
                        /\ FriendshipBetween(friendship, u, t) = {}
          IN /\ res'.status # 201 => RelationUnchanged
             /\ res'.status = 201
                  => /\ follower' = follower \cup {FollowerRow(u, t)}
                     /\ ~Follows(follower, u, t)
                     /\ mutual => /\ friendship \subseteq friendship'
                                  /\ Cardinality(friendship' \ friendship) = 1
                                  /\ \A f \in friendship' \ friendship :
                                       /\ f.status = "accepted"
                                       /\ {f.userAId, f.userBId} = {u, t}
                     /\ ~mutual => friendship' = friendship]_vars

\* C11 witness: a follow has succeeded and left the pair with an accepted
\* Friendship whose userA is the follower, and the friend_accept notification
C11_Witness ==
  /\ res.op = "follow" /\ res.status = 201
  /\ \E f \in friendship : f.status = "accepted"
  /\ Len(notification) > 0
  /\ notification[Len(notification)].type = "friend_accept"

C13_UniqueViolationAnswersConflict ==
  [][\A p \in Requests :
       /\ (FollowTx(p) /\ Follows(follower, req[p].actor, req[p].target))
            => res'.status = 400 /\ UNCHANGED db
       /\ (/\ SendFriendRequestTx(p)
           /\ \E f \in friendship :
                f.userAId = req[p].actor /\ f.userBId = req[p].target)
            => res'.status = 400 /\ UNCHANGED db]_vars

\* the ids of the posts of a timeline response, and those tagged boosted / organic
FeedIds(f) == {f.posts[i].id : i \in DOMAIN f.posts}
BoostedIds(f) == {f.posts[i].id : i \in {j \in DOMAIN f.posts : f.posts[j].isBoosted}}
OrganicIds(f) == {f.posts[i].id : i \in {j \in DOMAIN f.posts : ~f.posts[j].isBoosted}}

\* the author of a user post, or the page of a page post, carries the marker
OwnerSoftDeleted(k) ==
  \/ post[k].type = "user" /\ userDeletedAt[post[k].authorId]
  \/ post[k].type = "page" /\ AlivePage(post[k].pageId) = {}

\* C14 (as claimed): neither timeline returns to a viewer a post whose author
\* account (user post) or owning page (page post) is soft-deleted, even when the
\* post row is alive and the viewer's follow row is not marked deleted.
C14_FeedHidesPostsOfDeletedOwners ==
  [][\A v \in Viewers, pageNo \in 1..MaxPage, limit \in 1..MaxLimit :
       (TimelineEnhanced(v, pageNo, limit) \/ Timeline(v, pageNo, limit))
         => \A k \in FeedIds(feed') : ~OwnerSoftDeleted(k)]_vars

\* C15: in every answer of the enhanced timeline, every post tagged boosted
\* comes before every post tagged organic, whatever their creation times.
C15_BoostedBeforeOrganic ==
  [][\A v \in Viewers, pageNo \in 1..MaxPage, limit \in 1..MaxLimit :
       TimelineEnhanced(v, pageNo, limit)
         => \A i, j \in DOMAIN feed'.posts :
              (feed'.posts[i].isBoosted /\ ~feed'.posts[j].isBoosted) => i < j]_vars

\* C15 witness: an answer whose first post is a boosted post of one page and
\* whose second post is an organic post of another page, created later
C15_Witness ==
  /\ feed.status = 200
  /\ Len(feed.posts) = 2
  /\ feed.posts[1].isBoosted /\ ~feed.posts[2].isBoosted
  /\ feed.posts[1].id < feed.posts[2].id
  /\ post[feed.posts[1].id].type = "page"
  /\ post[feed.posts[2].id].type = "page"
  /\ post[feed.posts[1].id].pageId # post[feed.posts[2].id].pageId

\* C16: hasMore of the enhanced timeline is (offset + number of organic posts
\* returned) < number of organic posts of the audience, the organic posts being
\* the alive posts of the audience that this answer does not return as boosted:
\* the boosted posts count neither as returned nor in the total.
C16_HasMoreCountsOrganicOnly ==
  [][\A v \in Viewers, pageNo \in 1..MaxPage, limit \in 1..MaxLimit :
       TimelineEnhanced(v, pageNo, limit)
         => LET organicTotal ==
                  Cardinality({k \in DOMAIN post : ~post[k].deleted /\ InAudience(k, v)}
                                \ BoostedIds(feed'))
            IN feed'.hasMore
                 <=> ((pageNo - 1) * limit + Cardinality(OrganicIds(feed')) < organicTotal)]_vars

\* C16 witness: an answer with a boosted post and with more organic posts to come,
\* and one with a boosted post and none to come
C16_Witness ==
  /\ feed.status = 200
  /\ feed.hasMore
  /\ BoostedIds(feed) # {}
  /\ feed.total = 2

\* C17: no post is returned as boosted on the strength of a boost whose endDate
\* has passed: every post tagged boosted has an accepted boost with no endDate or
\* with an endDate still to come, whether or not the expiry sweep has run.
C17_ExpiredBoostNotServed ==
  [][\A v \in Viewers, pageNo \in 1..MaxPage, limit \in 1..MaxLimit :
       TimelineEnhanced(v, pageNo, limit)
         => \A k \in BoostedIds(feed') :
              \E i \in DOMAIN boostedPost :
                /\ boostedPost[i].postId = k
                /\ boostedPost[i].status = "accepted"
                /\ (boostedPost[i].endDate = NullDate \/ boostedPost[i].endDate > now)]_vars

\* C17 witness: a post whose accepted boost ended in the past is returned, as an
\* organic post
C17_Witness ==
  /\ feed.status = 200
  /\ \E k \in OrganicIds(feed) :
       \E i \in DOMAIN boostedPost :
         /\ boostedPost[i].postId = k
         /\ boostedPost[i].status = "accepted"
         /\ boostedPost[i].endDate # NullDate
         /\ boostedPost[i].endDate < now

\* C18 (as claimed): once the expiry sweep has run, every BoostedPost whose
\* endDate had passed and whose status was accepted has status expired.
C18_SweepExpiresBoostedPosts ==
  [][(UpdateExpired \/ SponsoredScheduler)
       => \A i \in DOMAIN boostedPost :
            (/\ boostedPost[i].status = "accepted"
             /\ boostedPost[i].endDate # NullDate
             /\ boostedPost[i].endDate < now)
              => boostedPost'[i].status = "expired"]_vars

\* C19: right after a run of updateExpiredPosts, a second run at the same clock
\* matches no row and leaves the table, and so the set of expired rows, as the
\* first run left it.
C19_SweepIdempotent ==
  [][(UpdateExpired \/ SponsoredScheduler)
       => /\ ExpiredSponsored(sponsored', now') = {}
          /\ updateExpiredPosts(sponsored', now') = sponsored']_vars

\* C19 witness: the sweep that ran last changed rows to expired
C19_Witness ==
  /\ res.op = "updateExpired"
  /\ expiredCount > 0
  /\ \E id \in SponsoredIds : sponsored[id].isActive = "expired"

\* the request leaves a reaction of the type sent: it created or changed one
Reacted(u, k, t) == ReactionRow(u, k, t) \in reaction'

\* C20 (as claimed): when U reacts to a post authored by U no notification row is
\* created; when U reacts to a user post authored by V other than U, exactly one
\* like notification is created, addressed to V.
C20_ReactNotifiesAuthorOnly ==
  [][\A u \in UserIds, k \in PostIds, t \in ReactionTypes :
       (React(u, k, t) /\ k \in DOMAIN post /\ Reacted(u, k, t))
         => /\ post[k].authorId = u => notification' = notification
            /\ (post[k].type = "user" /\ post[k].authorId # u)
                 => notification' =
                      Append(notification, NotificationRow(post[k].authorId, u, "like"))]_vars

\* C20 (amended): the recipient of a reaction is the author of a user post and
\* the owner of the page of a page post, whoever wrote it. When U reacts to a
\* post whose recipient is U no notification row is created; otherwise exactly
\* one is created, addressed to the recipient: a like for a user post, a
\* page_like for a page post.
C20_ReactNotifiesRecipient ==
  [][\A u \in UserIds, k \in PostIds, t \in ReactionTypes :
       (React(u, k, t) /\ k \in DOMAIN post /\ Reacted(u, k, t))
         => \A v \in likeRecipients(k) :
              /\ v = u => notification' = notification
              /\ (v # u /\ post[k].type = "user")
                   => notification' = Append(notification, NotificationRow(v, u, "like"))
              /\ (v # u /\ post[k].type = "page")
                   => notification' =
                        Append(notification, NotificationRow(v, u, "page_like"))]_vars

\* C20 witness: a user has reacted to another user's post and the author holds
\* the like notification
C20_Witness ==
  /\ res.op = "react" /\ res.status = 201
  /\ \E r \in reaction :
       /\ post[r.postId].type = "user"
       /\ post[r.postId].authorId # r.userId
       /\ Len(notification) > 0
       /\ notification[Len(notification)] =
            NotificationRow(post[r.postId].authorId, r.userId, "like")

\* C21: no notification written by the create operations of the
\* NotificationService (like, comment, follow, page follow, friend request,
\* friend accept) has its recipient as its sender; in particular the owner of
\* a page reacting to or commenting on a post of the page gets no notification.
C21_NoSelfNotification ==
  /\ [](\A n \in 1..Len(notification) : notification[n].userId # notification[n].senderId)
  /\ [][\A u \in UserIds, k \in DOMAIN post :
          (/\ (Comment(u, k) \/ \E t \in ReactionTypes : React(u, k, t))
           /\ post[k].type = "page"
           /\ \E p \in page : p.id = post[k].pageId /\ p.ownerId = u)
            => notification' = notification]_vars

\* C21 witness: the owner of a page has reacted to or commented on a post of
\* the page, and the table holds notifications of other users' actions only
C21_Witness ==
  /\ \E k \in DOMAIN post :
       /\ post[k].type = "page"
       /\ \E p \in page :
            /\ p.id = post[k].pageId
            /\ \/ \E r \in reaction : r.postId = k /\ r.userId = p.ownerId
               \/ \E c \in 1..Len(comment) :
                    comment[c].postId = k /\ comment[c].userId = p.ownerId
  /\ Len(notification) > 0

\* the handler answered 200 or 201
Succeeded == res'.status \in {200, 201}

\* C22: a failure inside notification creation never reaches the caller. While
\* notification.create throws, no notification is written, and every request
\* that is not refused (friend request, follow, reaction, comment) keeps the
\* rows it wrote and is answered with success.
C22_NotificationFailureIsolated ==
  [][notificationCreateFails =>
       /\ notification' = notification
       /\ \A u \in UserIds, k \in DOMAIN post :
            /\ (res'.op = "comment" /\ Comment(u, k))
                 => Succeeded /\ comment' = Append(comment, CommentRow(u, k))
            /\ \A t \in ReactionTypes :
                 (res'.op = "react" /\ React(u, k, t)) => Succeeded /\ reaction' # reaction
       /\ \A u \in UserIds, t \in UserIds :
            /\ (res'.op = "sendFriendRequest" /\ res'.status # 400 /\ SendFriendRequest(u, t))
                 => Succeeded /\ FriendshipBetween(friendship', u, t) # {}
            /\ (res'.op = "follow" /\ res'.status # 400 /\ Follow(u, t))
                 => Succeeded /\ Follows(follower', u, t)]_vars

\* C22 witness: while notification.create throws, a user has commented on
\* another user's post: the comment is stored, the answer is 201 and no
\* notification was written
C22_Witness ==
  /\ notificationCreateFails
  /\ res.op = "comment" /\ res.status = 201
  /\ notification = <<>>
  /\ \E c \in 1..Len(comment) :
       /\ post[comment[c].postId].type = "user"
       /\ post[comment[c].postId].authorId # comment[c].userId

\* C23 (as claimed): approving or rejecting a page join request writes one
\* notification addressed to the user who asked, sent by the approver or
\* rejecter.
C23_JoinDecisionNotifiesRequester ==
  [][\A u \in UserIds, p \in PageIds, t \in UserIds :
       (/\ res'.op \in {"approveRequest", "rejectRequest"}
        /\ res'.status = 200
        /\ (ApproveRequest(u, p, t) \/ RejectRequest(u, p, t)))
         => /\ Len(notification') = Len(notification) + 1
            /\ notification'[Len(notification')].userId = t
            /\ notification'[Len(notification')].senderId = u]_vars

\* the notifications of the other users, in table order
NotificationsOfOthers(ns, userId) ==
  [k \in 1..Cardinality({n \in DOMAIN ns : ns[n].userId # userId}) |->
     ns[CHOOSE n \in DOMAIN ns :
          /\ ns[n].userId # userId
          /\ Cardinality({m \in 1..n : ns[m].userId # userId}) = k]]

\* C24: markRead(userId, ids), markAllRead(userId) and delete(userId, id) are
\* scoped to the caller: whatever ids are sent, every notification whose
\* recipient is another user still exists and has the isRead flag it had.
C24_ReadSideScopedToCaller ==
  [][\A u \in UserIds :
       (\/ \E ids \in SUBSET NotificationIds : MarkAsRead(u, ids)
        \/ MarkAllAsRead(u)
        \/ \E n \in NotificationIds : DeleteNotificationById(u, n)
        \/ \E n \in NotificationIds : ViewNotification(u, n))
         => NotificationsOfOthers(notification', u) = NotificationsOfOthers(notification, u)]_vars

\* C24 witness: a markRead has marked a notification of its caller while an
\* unread notification of another user is in the table
C24_Witness ==
  /\ res.op = "markAsRead" /\ res.status = 200
  /\ \E n, m \in DOMAIN notification :
       /\ notification[n].isRead
       /\ ~notification[m].isRead
       /\ notification[m].userId # notification[n].userId

\* the user whose request created the boost: POST / of the boost routes lets
\* only the author of a user post and the owner of the page of a page post through
BoostedBy(b) ==
  IF post[b.postId].type = "user" THEN post[b.postId].authorId
  ELSE (CHOOSE p \in page : p.id = post[b.postId].pageId).ownerId

\* the boosts a user created in the window of one week that starts at t
BoostsInWindow(userId, t) ==
  {i \in DOMAIN boostedPost :
     /\ BoostedBy(boostedPost[i]) = userId
     /\ boostedPost[i].createdAt >= t
     /\ boostedPost[i].createdAt <= t + Week}

\* C25: of the boosts one Pro user created, on own posts or on posts of pages
\* the user owns, at most 3 fall within any window of 7 days.
C25_WeeklyBoostLimit ==
  \A u \in UserIds, t \in Times :
    Cardinality(BoostsInWindow(u, t)) <= WeeklyBoostLimit

\* the ids GET /timeline-enhanced answers on one page
PageIdsOf(userId, pageNo, limit) ==
  Range(boostedPosts(userId, limit))
    \cup Range(regularPosts(userId, (pageNo - 1) * limit, limit, boostedPosts(userId, limit)))

\* hasMore of the answer to one page
PageHasMore(userId, pageNo, limit) ==
  hasMore((pageNo - 1) * limit, Len(boostedPosts(userId, limit)),
          Len(regularPosts(userId, (pageNo - 1) * limit, limit, boostedPosts(userId, limit))),
          total(userId))

\* the ids a client sees that asks for page pageNo and goes on to the next page
\* while hasMore is true
RECURSIVE PagedIds(_, _, _)
PagedIds(userId, pageNo, limit) ==
  PageIdsOf(userId, pageNo, limit)
    \cup IF PageHasMore(userId, pageNo, limit) THEN PagedIds(userId, pageNo + 1, limit) ELSE {}

\* the organic posts of the viewer's audience: alive and without a running boost
OrganicAudience(userId) ==
  {k \in DOMAIN post : ~post[k].deleted /\ InAudience(k, userId) /\ ~HasActiveBoost(k)}

\* C26: paging with a fixed limit from page 1 until hasMore is false, with no
\* write in between, returns every organic post of the viewer's audience on
\* some page.
C26_PagingReturnsEveryOrganicPost ==
  feed.status = 200
    => \A v \in Viewers, limit \in 1..MaxLimit :
         OrganicAudience(v) \subseteq PagedIds(v, 1, limit)

\* C27: a pending friendship from A to B comes with the follower row A -> B:
\* whoever has a friend request pending follows its receiver.
C27_PendingImpliesRequesterFollows ==
  \A f \in friendship :
    f.status = "pending" => Follows(follower, f.userAId, f.userBId)

C29_ReactionToggle ==
  /\ [](\A u \in UserIds, k \in PostIds : Cardinality(ReactionOf(reaction, u, k)) <= 1)
  /\ [][\A u \in UserIds, k \in DOMAIN post, t \in ReactionTypes :
          React(u, k, t)
            => /\ reaction' \ ReactionOf(reaction', u, k) = reaction \ ReactionOf(reaction, u, k)
               /\ ReactionOf(reaction', u, k) =
                    IF ReactionRow(u, k, t) \in reaction THEN {} ELSE {ReactionRow(u, k, t)}]_vars

\* C29 witness: a request with the type already held has just removed the
\* only reaction
C29_Witness ==
  /\ res.op = "react" /\ res.status = 200
  /\ reaction = {}
  /\ post # <<>>

\* the running boosts of a post: status accepted, endDate null or in the future
ActiveBoostsOf(k) ==
  {i \in DOMAIN boostedPost : boostedPost[i].postId = k /\ ActiveBoost(boostedPost[i], now)}

\* C30: a post has at most one active boost at any time, also when two boost
\* requests for the post run concurrently and both pass the already-boosted
\* check.
C30_OneActiveBoostPerPost ==
  \A k \in PostIds : Cardinality(ActiveBoostsOf(k)) <= 1

====
